---------------------------- MODULE Spec2Model ----------------------------
(***************************************************************************)
(* Model of the send-email edge function of the admin mail portal          *)
(* (supabase/functions/send-email, Gmail-API revision): input validation,  *)
(* sanitisation, the in-memory rate limiter, the audit recorder and the    *)
(* request handler with its concurrent per-recipient dispatch.             *)
(*                                                                         *)
(* A JavaScript string is a tuple of one-character strings.  A JSON value  *)
(* read from the request body is a record [kind, text] whose kind is       *)
(* "undefined" (field absent), "null", "number" or "string".               *)
(***************************************************************************)
EXTENDS Integers, Sequences, FiniteSets, TLC

(***************************************************************************)
(* Characters and the regular-expression fragment the source uses.         *)
(***************************************************************************)
LowerSeq == <<"a","b","c","d","e","f","g","h","i","j","k","l","m",
              "n","o","p","q","r","s","t","u","v","w","x","y","z">>
UpperSeq == <<"A","B","C","D","E","F","G","H","I","J","K","L","M",
              "N","O","P","Q","R","S","T","U","V","W","X","Y","Z">>
LowerLetters == {LowerSeq[i] : i \in DOMAIN LowerSeq}
UpperLetters == {UpperSeq[i] : i \in DOMAIN UpperSeq}
Digits == {"0","1","2","3","4","5","6","7","8","9"}
Whitespace == {" ", "\t", "\n", "\r"}
LineTerminators == {"\n", "\r"}
\* the grave accent cannot be written in a string literal of the language
Grave == "GRAVE"
Punctuation == {"&","<",">","\"","'","/",Grave,"=",":","(",")","-","_","@",
                ".","!",";","#",",","\\","{","}","[","]","?","+","*","%"}
Alphabet == LowerLetters \cup UpperLetters \cup Digits \cup Whitespace
              \cup Punctuation

\* String.prototype.toLowerCase on one character
Lower(c) ==
    IF c \in UpperLetters
    THEN LowerSeq[CHOOSE i \in DOMAIN UpperSeq : UpperSeq[i] = c]
    ELSE c

\* the i flag of a regular expression
Fold(c, ci) == IF ci THEN Lower(c) ELSE c

\* \w and \s of JavaScript regular expressions, and [^...] classes
WordChars == LowerLetters \cup UpperLetters \cup Digits \cup {"_"}
Not(S) == Alphabet \ S

\* A pattern is a tuple of items; an item matches one character of its set,
\* or (star) any number of them.
One(S) == <<[set |-> S, star |-> FALSE]>>
Star(S) == <<[set |-> S, star |-> TRUE]>>
Plus(S) == One(S) \o Star(S)
Lit(l) == [j \in 1..Len(l) |-> [set |-> {l[j]}, star |-> FALSE]]

\* The positions at which a match of pat[k..] that starts at s[i] can end
\* (the index after its last character).
RECURSIVE MatchEnds(_, _, _, _, _)
MatchEnds(s, i, pat, k, ci) ==
    IF k > Len(pat) THEN {i}
    ELSE IF pat[k].star
    THEN \* the run of characters of the set that starts at s[i] can stop at e
         UNION {MatchEnds(s, e, pat, k + 1, ci) :
                   e \in {e \in i..(Len(s) + 1) :
                             \A j \in i..(e - 1) : Fold(s[j], ci) \in pat[k].set}}
    ELSE IF i <= Len(s) /\ Fold(s[i], ci) \in pat[k].set
    THEN MatchEnds(s, i + 1, pat, k + 1, ci)
    ELSE {}

\* RegExp.prototype.test for a pattern without anchors
RegexTest(pat, s, ci) ==
    \E i \in 1..Len(s) : MatchEnds(s, i, pat, 1, ci) # {}

\* RegExp.prototype.test for a pattern written ^...$
RegexTestAnchored(pat, s, ci) ==
    (Len(s) + 1) \in MatchEnds(s, 1, pat, 1, ci)

\* String.prototype.trim() yields the empty string
TrimIsEmpty(s) == \A i \in 1..Len(s) : s[i] \in Whitespace

\* String.prototype.trim
Trim(s) ==
    IF TrimIsEmpty(s) THEN <<>>
    ELSE LET keep == {i \in 1..Len(s) : s[i] \notin Whitespace}
             lo == CHOOSE i \in keep : \A j \in keep : i <= j
             hi == CHOOSE i \in keep : \A j \in keep : j <= i
         IN  SubSeq(s, lo, hi)

\* String.prototype.startsWith
StartsWith(s, p) == Len(s) >= Len(p) /\ SubSeq(s, 1, Len(p)) = p

\* s.replace(p, '') with a string pattern: the first occurrence only
RemoveFirst(s, p) ==
    LET at == {i \in 1..(Len(s) - Len(p) + 1) : SubSeq(s, i, i + Len(p) - 1) = p}
    IN  IF at = {} THEN s
        ELSE LET i == CHOOSE x \in at : \A y \in at : x <= y
             IN  SubSeq(s, 1, i - 1) \o SubSeq(s, i + Len(p), Len(s))

Rep(c, n) == [i \in 1..n |-> c]

(***************************************************************************)
(* JSON values of the request body                                         *)
(***************************************************************************)
Undefined == [kind |-> "undefined", text |-> <<>>]
Null == [kind |-> "null", text |-> <<>>]
Str(t) == [kind |-> "string", text |-> t]
Num(t) == [kind |-> "number", text |-> t]

Nullish(v) == v.kind \in {"undefined", "null"}

\* `${v}` in a template literal
TemplateText(v) ==
    CASE v.kind = "undefined" -> <<"u","n","d","e","f","i","n","e","d">>
      [] v.kind = "null" -> <<"n","u","l","l">>
      [] OTHER -> v.text

(***************************************************************************)
(* validateEmailInput                                                      *)
(***************************************************************************)
MAX_PILLAR_LENGTH == 100
MAX_SUBJECT_LENGTH == 200
MAX_CONTENT_LENGTH == 10000

\* /^[a-zA-Z0-9\s\-_]+$/
pillarRegex ==
    Plus(LowerLetters \cup UpperLetters \cup Digits \cup Whitespace \cup {"-", "_"})

suspiciousPatterns == <<
    Lit(<<"<","s","c","r","i","p","t">>),
    Lit(<<"j","a","v","a","s","c","r","i","p","t",":">>),
    Lit(<<"o","n">>) \o Plus(WordChars) \o Star(Whitespace) \o Lit(<<"=">>),
    Lit(<<"<","i","f","r","a","m","e">>),
    Lit(<<"<","o","b","j","e","c","t">>),
    Lit(<<"<","e","m","b","e","d">>),
    Lit(<<"<","f","o","r","m">>),
    Lit(<<"d","a","t","a",":">>),
    Lit(<<"v","b","s","c","r","i","p","t",":">>),
    Lit(<<"<","l","i","n","k">>),
    Lit(<<"<","m","e","t","a">>),
    Lit(<<"e","v","a","l">>) \o Star(Whitespace) \o Lit(<<"(">>),
    Lit(<<"e","x","p","r","e","s","s","i","o","n">>) \o Star(Whitespace)
        \o Lit(<<"(">>) >>

NotTrimmed_emptyOnly(v) == Nullish(v) \/ v.text = <<>>

\* v?.trim(): undefined for null and undefined, the trimmed text for a string,
\* a TypeError for every other value (it has no trim method).
TrimThrows(v) == v.kind \notin {"undefined", "null", "string"}
NotTrimmed(v) == Nullish(v) \/ TrimIsEmpty(v.text)

\* The result is [threw, errors]: threw when the call ends with a TypeError.
validateEmailInput(pillar, subject, content) ==
    LET pillarErrors ==
            IF NotTrimmed(pillar) THEN <<"Pillar is required">>
            ELSE IF pillar.kind # "string" \/ Len(pillar.text) > MAX_PILLAR_LENGTH
                 THEN <<"Invalid pillar format">>
            ELSE IF ~RegexTestAnchored(pillarRegex, pillar.text, FALSE)
                 THEN <<"Pillar contains invalid characters">>
            ELSE <<>>
        subjectErrors ==
            IF NotTrimmed(subject) THEN <<"Subject is required">>
            ELSE IF subject.kind # "string" \/ Len(subject.text) > MAX_SUBJECT_LENGTH
                 THEN <<"Subject must be less than 200 characters">>
            ELSE <<>>
        contentErrors ==
            IF NotTrimmed(content) THEN <<"Content is required">>
            ELSE IF content.kind # "string" \/ Len(content.text) > MAX_CONTENT_LENGTH
                 THEN <<"Content must be less than 10,000 characters">>
            ELSE <<>>
        combinedText == TemplateText(subject) \o <<" ">> \o TemplateText(content)
        suspicious ==
            \E p \in DOMAIN suspiciousPatterns :
                RegexTest(suspiciousPatterns[p], combinedText, TRUE)
    IN  IF TrimThrows(pillar) \/ TrimThrows(subject) \/ TrimThrows(content)
        THEN [threw |-> TRUE, errors |-> <<>>]
        ELSE [threw |-> FALSE,
              errors |-> pillarErrors \o subjectErrors \o contentErrors
                           \o (IF suspicious
                               THEN <<"Content contains potentially unsafe elements">>
                               ELSE <<>>)]

(***************************************************************************)
(* checkRateLimit.  rateLimitMap is a function whose domain is the set of  *)
(* keys the Map holds.                                                     *)
(***************************************************************************)
RATE_LIMIT_WINDOW == 900000
RATE_LIMIT_MAX_REQUESTS == 10

MapSet(m, k, v) == [x \in (DOMAIN m) \cup {k} |-> IF x = k THEN v ELSE m[x]]

checkRateLimit_allowsEleventh(m, userId, t) ==
    IF userId \notin DOMAIN m \/ t > m[userId].resetTime
    THEN [map |-> MapSet(m, userId, [count |-> 1, resetTime |-> t + RATE_LIMIT_WINDOW]),
          allowed |-> TRUE]
    ELSE IF m[userId].count > RATE_LIMIT_MAX_REQUESTS
         THEN [map |-> m, allowed |-> FALSE]
         ELSE [map |-> MapSet(m, userId, [count |-> m[userId].count + 1,
                                          resetTime |-> m[userId].resetTime]),
               allowed |-> TRUE]

checkRateLimit_lostIncrement(m, userId, t) ==
    IF userId \notin DOMAIN m \/ t > m[userId].resetTime
    THEN [map |-> MapSet(m, userId, [count |-> 1, resetTime |-> t + RATE_LIMIT_WINDOW]),
          allowed |-> TRUE]
    ELSE IF m[userId].count >= RATE_LIMIT_MAX_REQUESTS
         THEN [map |-> m, allowed |-> FALSE]
         ELSE [map |-> m, allowed |-> TRUE]

checkRateLimit_countsDenied(m, userId, t) ==
    IF userId \notin DOMAIN m \/ t > m[userId].resetTime
    THEN [map |-> MapSet(m, userId, [count |-> 1, resetTime |-> t + RATE_LIMIT_WINDOW]),
          allowed |-> TRUE]
    ELSE [map |-> MapSet(m, userId, [count |-> m[userId].count + 1,
                                     resetTime |-> m[userId].resetTime]),
          allowed |-> m[userId].count < RATE_LIMIT_MAX_REQUESTS]

\* The result is [map, allowed]: the Map after the call and the value returned.
checkRateLimit(m, userId, t) ==
    IF userId \notin DOMAIN m \/ t > m[userId].resetTime
    THEN [map |-> MapSet(m, userId,
                         [count |-> 1, resetTime |-> t + RATE_LIMIT_WINDOW]),
          allowed |-> TRUE]
    ELSE IF m[userId].count >= RATE_LIMIT_MAX_REQUESTS
         THEN [map |-> m, allowed |-> FALSE]
         ELSE [map |-> MapSet(m, userId,
                              [count |-> m[userId].count + 1,
                               resetTime |-> m[userId].resetTime]),
               allowed |-> TRUE]

(***************************************************************************)
(* sanitizeHtml                                                            *)
(***************************************************************************)
\* s.replace(/pat/g, repl): the matches are taken from left to right and do
\* not overlap.  Where several ends are possible the lazy pattern (.*?) takes
\* the nearest and the greedy ones the farthest, which is what backtracking
\* yields for the patterns of sanitizeHtml.
RECURSIVE ReplaceFrom(_, _, _, _, _, _)
ReplaceFrom(s, i, pat, ci, lazy, repl) ==
    LET starts == {j \in i..Len(s) : MatchEnds(s, j, pat, 1, ci) \ {j} # {}}
    IN  IF starts = {} THEN SubSeq(s, i, Len(s))
        ELSE LET j == CHOOSE x \in starts : \A y \in starts : x <= y
                 ends == MatchEnds(s, j, pat, 1, ci) \ {j}
                 e == IF lazy
                      THEN CHOOSE x \in ends : \A y \in ends : x <= y
                      ELSE CHOOSE x \in ends : \A y \in ends : y <= x
             IN  SubSeq(s, i, j - 1) \o repl
                   \o ReplaceFrom(s, e, pat, ci, lazy, repl)

ReplaceAll(s, pat, ci, lazy, repl) == ReplaceFrom(s, 1, pat, ci, lazy, repl)

Quotes == {"\"", "'"}

\* /<script[^>]*>.*?<\/script>/gi
scriptBlockRegex ==
    Lit(<<"<","s","c","r","i","p","t">>) \o Star(Not({">"})) \o Lit(<<">">>)
      \o Star(Not(LineTerminators)) \o Lit(<<"<","/","s","c","r","i","p","t",">">>)
\* /on\w+\s*=\s*["'][^"']*["']/gi
quotedHandlerRegex ==
    Lit(<<"o","n">>) \o Plus(WordChars) \o Star(Whitespace) \o Lit(<<"=">>)
      \o Star(Whitespace) \o One(Quotes) \o Star(Not(Quotes)) \o One(Quotes)
\* /on\w+\s*=\s*[^>\s]+/gi
bareHandlerRegex ==
    Lit(<<"o","n">>) \o Plus(WordChars) \o Star(Whitespace) \o Lit(<<"=">>)
      \o Star(Whitespace) \o Plus(Not({">"} \cup Whitespace))

\* The escaping replacements, in the order of the source.
htmlEscapes == <<
    [ch |-> "&",  entity |-> <<"&","a","m","p",";">>],
    [ch |-> "<",  entity |-> <<"&","l","t",";">>],
    [ch |-> ">",  entity |-> <<"&","g","t",";">>],
    [ch |-> "\"", entity |-> <<"&","q","u","o","t",";">>],
    [ch |-> "'",  entity |-> <<"&","#","x","2","7",";">>],
    [ch |-> "/",  entity |-> <<"&","#","x","2","F",";">>],
    [ch |-> Grave, entity |-> <<"&","#","x","6","0",";">>],
    [ch |-> "=",  entity |-> <<"&","#","x","3","D",";">>] >>

RECURSIVE EscapeHtml(_, _)
EscapeHtml(s, k) ==
    IF k > Len(htmlEscapes) THEN s
    ELSE EscapeHtml(ReplaceAll(s, One({htmlEscapes[k].ch}), FALSE, FALSE,
                               htmlEscapes[k].entity), k + 1)

\* The argument is a JSON value, the result a string.
sanitizeHtml(input) ==
    IF input.kind # "string" \/ input.text = <<>> THEN <<>>
    ELSE LET escaped == EscapeHtml(input.text, 1)
             s1 == ReplaceAll(escaped,
                       Lit(<<"j","a","v","a","s","c","r","i","p","t",":">>),
                       TRUE, FALSE, <<>>)
             s2 == ReplaceAll(s1, Lit(<<"d","a","t","a",":">>), TRUE, FALSE, <<>>)
             s3 == ReplaceAll(s2, Lit(<<"v","b","s","c","r","i","p","t",":">>),
                       TRUE, FALSE, <<>>)
             s4 == ReplaceAll(s3, scriptBlockRegex, TRUE, TRUE, <<>>)
             s5 == ReplaceAll(s4, quotedHandlerRegex, TRUE, FALSE, <<>>)
         IN  ReplaceAll(s5, bareHandlerRegex, TRUE, FALSE, <<>>)

\* String.prototype.substring(0, n)
Substring0(s, n) == SubSeq(s, 1, IF Len(s) < n THEN Len(s) ELSE n)

(***************************************************************************)
(* logAdminAction.  The audit store is an external collaborator: an insert  *)
(* is accepted or not (storeOk).  The details object is serialised, cut to  *)
(* 1000 characters and parsed again; a cut serialisation of an object is    *)
(* never a JSON text, so JSON.parse throws and the catch block swallows the *)
(* error before any insert is made.                                         *)
(***************************************************************************)
AUDIT_DETAILS_MAX == 1000

\* the length of JSON.stringify of a string
JsonEscaped == {"\"", "\\", "\t", "\n", "\r"}
JsonStringLen(t) ==
    Len(t) + Cardinality({i \in 1..Len(t) : t[i] \in JsonEscaped}) + 2

\* the length of JSON.stringify of a number 0..9999
JsonNumberLen(n) == IF n < 10 THEN 1 ELSE IF n < 100 THEN 2 ELSE IF n < 1000 THEN 3 ELSE 4

\* the length of each message validateEmailInput can push
ErrorMessageLen(m) ==
    CASE m = "Pillar is required" -> 18
      [] m = "Invalid pillar format" -> 21
      [] m = "Pillar contains invalid characters" -> 34
      [] m = "Subject is required" -> 19
      [] m = "Subject must be less than 200 characters" -> 40
      [] m = "Content is required" -> 19
      [] m = "Content must be less than 10,000 characters" -> 43
      [] m = "Content contains potentially unsafe elements" -> 44

RECURSIVE SumLens(_, _)
SumLens(errors, k) ==
    IF k > Len(errors) THEN 0
    ELSE ErrorMessageLen(errors[k]) + 2 + SumLens(errors, k + 1)

\* the length of JSON.stringify of an array of messages
JsonErrorsLen(errors) ==
    2 + SumLens(errors, 1) + (IF Len(errors) > 1 THEN Len(errors) - 1 ELSE 0)

\* JSON.parse(JSON.stringify(details).substring(0, 1000)) returns
DetailsParse(detailsLen) == detailsLen <= AUDIT_DETAILS_MAX

\* The audit log after logAdminAction(userId, action, details): the call never
\* throws to its caller.
logAdminAction(log, userId, action, detailsLen, storeOk) ==
    IF DetailsParse(detailsLen) /\ storeOk
    THEN Append(log, [admin_user_id |-> userId, action |-> action])
    ELSE log

logAdminActionThrows_noCatch(detailsLen, storeOk) ==
    ~DetailsParse(detailsLen) \/ ~storeOk

\* whether `await logAdminAction(..)` throws to the handler: the body is one
\* try block whose catch only calls console.error
logAdminActionThrows(detailsLen, storeOk) == FALSE

(***************************************************************************)
(* createErrorResponse                                                     *)
(***************************************************************************)
genericMessages(status) ==
    CASE status = 400 -> "Invalid request parameters"
      [] status = 401 -> "Authentication required"
      [] status = 403 -> "Access denied"
      [] status = 404 -> "Resource not found"
      [] status = 429 -> "Too many requests"
      [] status = 500 -> "Internal server error"
      [] OTHER -> "An error occurred"

NoResponse == [kind |-> "none", status |-> 0, error |-> "", details |-> <<>>,
               recipients |-> 0, failures |-> 0]

\* new Response(JSON.stringify({ error: responseMessage }), { status, .. })
createErrorResponse(status) ==
    [kind |-> "error", status |-> status, error |-> genericMessages(status),
     details |-> <<>>, recipients |-> 0, failures |-> 0]

(***************************************************************************)
(* The employee directory.  A row is named by its kind; EmployeeRow gives   *)
(* the columns the handler selects.                                         *)
(***************************************************************************)
\* /^[^\s@]+@[^\s@]+\.[^\s@]+$/
emailRegex ==
    Plus(Not(Whitespace \cup {"@"})) \o Lit(<<"@">>)
      \o Plus(Not(Whitespace \cup {"@"})) \o Lit(<<".">>)
      \o Plus(Not(Whitespace \cup {"@"}))

RowKinds == {"valid", "bad_email"}

EmployeeRow(kind) ==
    IF kind = "valid"
    THEN [name |-> <<"A","n","n">>, email |-> <<"a","n","n","@","x",".","i","o">>]
    ELSE [name |-> <<"B","o","b">>, email |-> <<"b","o","b","@","x">>]

EmailIsValid(kind) == RegexTestAnchored(emailRegex, EmployeeRow(kind).email, FALSE)

(***************************************************************************)
(* The request handler.  One request is handled at a time; an action is the *)
(* code between two awaits on a collaborator (identity verifier, allow-list *)
(* store, body stream, directory store, transport), with the awaited audit  *)
(* writes on the way.                                                       *)
(***************************************************************************)
MIN_TOKEN_LENGTH == 10
MAX_BODY_LENGTH == 50000
FETCH_LIMIT == 1000
MAX_RECIPIENTS == 500

\* bounds of the model
MaxDirectory == 3        \* directories up to this size: any rows, any order
MaxCallsPerWindow == 12  \* limiter calls per key and window (SpecRL)
MaxUnitTicks == 2        \* clock steps of 1 ms per window (SpecRL)
MaxWindowTicks == 2      \* clock steps of one window (SpecRL)
MaxConcurrent == 12      \* requests of one caller in one window (SpecConcurrent)

MaxSmtpRequests == 2     \* overlapping requests (SpecSmtp)
MaxSmtpRows == 2         \* rows of the directory answer of each (SpecSmtp)
MaxTimedRows == 2        \* rows of the directory answer (SpecTimed)
MaxSignInTicks == 8      \* steps of the clock of the sign-in form (SpecSignIn)
MaxSignInCount == 7      \* largest count of a record of the sign-in limiter

\* the user ids the identity verifier answers with, and the limiter keys
Users == {"u1"}
Keys == {"u1", "u2"}

VARIABLES
    rateLimitMap,  \* the module-level Map of checkRateLimit
    now,           \* Date.now()
    adminUsers,    \* the admin_users table: the user ids with a record
    pc,            \* where the handler of the current request is
    request,       \* method, environment and Authorization header
    user,          \* user.id once the token is verified
    body,          \* the body read by req.text()
    employees,     \* the rows the directory query returned
    dirSize,       \* the rows of the pillar in the directory at that time
    results,       \* per recipient, the task: pending, success, invalid, threw, timeout
    transport,     \* per recipient, the transport call: none, called, returned, threw
    sends,         \* recipients the transport was invoked for, in order
    trace,         \* calls made and answers received by the current request, in order
    auditLog,      \* admin_audit_log rows inserted by the current request
    response,      \* the Response returned
    rlLast,        \* limiter observer: last call [key, allowed, fresh]
    windowCalls,   \* limiter observer: calls per key in the current window
    windowEnd,     \* limiter observer: reset time of the current window
    revoked,       \* allow-list observer: callers whose record was removed after
                   \* a request of theirs was answered 200, and not inserted since
    handlers,      \* concurrent handlers of one caller: how many await the
                   \* identity verifier, how many passed and were denied by
                   \* the rate limit, and the most that were awaiting at once
    validated,     \* the last call of validateEmailInput: arguments and result
    sanitized,     \* the last call of sanitizeHtml: argument and result
    audited,       \* the last call of logAdminAction alone: its details and
                   \* whether the audit store accepted the insert
    smtpConn,      \* SMTP revision: the connection of the module-level smtpClient
    smtpReq,       \* SMTP revision: per request, where its handler is, its rows,
                   \* its sends and its response
    smtpOverlap,   \* SMTP revision observer: the connectTLS() and close() calls
                   \* made while another request had sends in flight
    timed,         \* the dispatch with its clock and the deadlines of its timers
    signin         \* the sign-in form and its limiter: the clock, the limiter's
                   \* records, the next cleanup, the form's state, and the
                   \* last call of isRateLimited

smtpVars == <<smtpConn, smtpReq, smtpOverlap>>
laterVars == <<sanitized, audited, smtpVars, timed, signin>>
limiterVars == <<rlLast, windowCalls, windowEnd, revoked, handlers, validated, laterVars>>
requestVars == <<pc, request, user, body, employees, dirSize, results,
                 transport, sends, trace, auditLog, response>>
vars == <<rateLimitMap, now, adminUsers, requestVars, limiterVars>>

Ev(op, arg) == [op |-> op, arg |-> arg]
Calls(tr, op) == {i \in 1..Len(tr) : tr[i].op = op}
Answered(tr, op, arg) == \E i \in 1..Len(tr) : tr[i] = Ev(op, arg)
AuditCalls(tr, action) == {i \in 1..Len(tr) : tr[i] = Ev("logAdminAction", action)}

NoBody == [readOk |-> TRUE, len |-> 0,
           json |-> [kind |-> "none", pillar |-> Undefined,
                     subject |-> Undefined, content |-> Undefined]]
NoHeader == [present |-> FALSE, text |-> <<>>]
Header(t) == [present |-> TRUE, text |-> t]
NoRequest == [method |-> "", hasEnv |-> TRUE, authHeader |-> NoHeader]

CorsResponse == [kind |-> "cors", status |-> 200, error |-> "", details |-> <<>>,
                 recipients |-> 0, failures |-> 0]
SuccessResponse(successCount, failureCount) ==
    [kind |-> "success", status |-> 200, error |-> "", details |-> <<>>,
     recipients |-> successCount, failures |-> failureCount]

(* ------------------------- inputs of the model ------------------------- *)
BearerPrefix == <<"B","e","a","r","e","r"," ">>
AuthHeaderSamples ==
    { NoHeader,
      Header(<<"B","a","s","i","c"," ","a","b","c","d","e","f","g","h","i","j">>),
      Header(BearerPrefix),
      Header(BearerPrefix \o Rep("t", MIN_TOKEN_LENGTH - 1) \o <<" ">>),
      Header(BearerPrefix \o <<" ">> \o Rep("t", MIN_TOKEN_LENGTH)) }
Methods == {"OPTIONS", "POST", "GET"}

\* what auth.getUser resolves to: {data: {user}, error}
AuthAnswers ==
    {[error |-> TRUE, userId |-> "none"], [error |-> FALSE, userId |-> "none"]}
      \cup {[error |-> FALSE, userId |-> u] : u \in Users}

PillarSamples ==
    { Str(<<"E","n","g">>), Undefined, Str(<<" ">>),
      Str(Rep("a", MAX_PILLAR_LENGTH + 1)), Str(<<"a","!">>), Num(<<"5">>) }
SubjectSamples ==
    { Str(<<"H","i">>), Str(<<>>), Null, Str(Rep("b", MAX_SUBJECT_LENGTH + 1)),
      Str(<<"<","s","c","r","i","p","t",">">>) }
ContentSamples ==
    { Str(<<"y","o">>), Str(Rep("c", MAX_CONTENT_LENGTH + 1)),
      Str(<<"o","n","x","=","1">>), Num(<<"7">>) }

JsonValueLen(v) ==
    CASE v.kind = "string" -> JsonStringLen(v.text)
      [] v.kind = "null" -> 4
      [] OTHER -> Len(v.text)
\* the length of the JSON text of an object with these three fields
ObjectTextLen(p, s, c) ==
    LET present == {f \in {<<9, p>>, <<10, s>>, <<11, c>>} : f[2].kind # "undefined"}
        field(k, v) == IF v.kind = "undefined" THEN 0
                       ELSE (IF k = 9 THEN 9 ELSE 10) + JsonValueLen(v)
    IN  2 + field(9, p) + field(10, s) + field(11, c)
          + (IF present = {} THEN 0 ELSE Cardinality(present) - 1)

Json(kind, p, s, c) == [kind |-> kind, pillar |-> p, subject |-> s, content |-> c]
BasePillar == Str(<<"E","n","g">>)
BaseSubject == Str(<<"H","i">>)
BaseContent == Str(<<"y","o">>)
\* a valid object, the objects that differ from it in one field, and two
\* objects with several bad fields
ObjectBodies ==
    {Json("object", p, BaseSubject, BaseContent) : p \in PillarSamples}
      \cup {Json("object", BasePillar, s, BaseContent) : s \in SubjectSamples}
      \cup {Json("object", BasePillar, BaseSubject, c) : c \in ContentSamples}
      \cup { Json("object", Num(<<"5">>), Str(<<>>), BaseContent),
             Json("object", Str(<<" ">>), Str(<<>>), Str(<<"o","n","x","=","1">>)),
             Json("object", Undefined, Undefined, Undefined) }
BodySamples ==
    {[readOk |-> TRUE, len |-> ObjectTextLen(j.pillar, j.subject, j.content),
      json |-> j] : j \in ObjectBodies}
      \cup { [readOk |-> FALSE, len |-> 0, json |-> NoBody.json],
             [readOk |-> TRUE, len |-> 0, json |-> NoBody.json],
             [readOk |-> TRUE, len |-> MAX_BODY_LENGTH + 1, json |-> NoBody.json],
             [readOk |-> TRUE, len |-> 7,
              json |-> Json("syntax_error", Undefined, Undefined, Undefined)],
             [readOk |-> TRUE, len |-> 4,
              json |-> Json("null", Undefined, Undefined, Undefined)],
             [readOk |-> TRUE, len |-> 2,
              json |-> Json("scalar", Undefined, Undefined, Undefined)] }

\* validateEmailInput on each body of the model, computed once
Validation ==
    [j \in ObjectBodies \cup {Json("scalar", Undefined, Undefined, Undefined)} |->
        validateEmailInput(j.pillar, j.subject, j.content)]

Min(a, b) == IF a < b THEN a ELSE b
DirSizes == (0..MaxDirectory)
              \cup {MAX_RECIPIENTS, MAX_RECIPIENTS + 1, FETCH_LIMIT, FETCH_LIMIT + 1}
\* .eq('pillar', pillar).limit(1000): an error, or at most 1000 of the rows
DirectoryAnswers ==
    {[error |-> TRUE, size |-> 0, rows |-> <<>>]}
      \cup UNION {
            {[error |-> FALSE, size |-> m, rows |-> r] :
                r \in IF m <= MaxDirectory
                      THEN [1..m -> RowKinds]
                      ELSE {[i \in 1..Min(m, FETCH_LIMIT) |-> "valid"]}}
            : m \in DirSizes}

\* the requests of the SMTP revision, and a request that has not arrived
SmtpRequests == 1..MaxSmtpRequests
SmtpIdle == [pc |-> "idle", rows |-> <<>>, sends |-> <<>>, closeThrows |-> FALSE,
             status |-> 0, recipients |-> 0, failures |-> 0]

\* the dispatch of SpecTimed before it starts
TimedIdle == [pc |-> "idle", now |-> 0, rows |-> <<>>, results |-> <<>>,
              transport |-> <<>>, due |-> <<>>, batchDue |-> 0, fired |-> {},
              status |-> 0, recipients |-> 0, failures |-> 0]

\* the sign-in page after its modules are loaded: `new RateLimiter()` has
\* started the cleanup interval, the form has attemptCount 0
ClientKeys == {"client"}
CLEANUP_INTERVAL_MS == 300000
SignInIdle == [clock |-> 0, attempts |-> <<>>, cleanupDue |-> CLEANUP_INTERVAL_MS,
               pending |-> FALSE, attemptCount |-> 0,
               lockout |-> [k \in ClientKeys |-> FALSE],
               lastCallAt |-> [k \in ClientKeys |-> 0],
               call |-> [made |-> FALSE, key |-> "", limited |-> FALSE,
                         mustBlock |-> FALSE, cleaned |-> FALSE],
               cleaned |-> [k \in ClientKeys |-> FALSE]]

(* ------------------------------ the handler ---------------------------- *)
Init ==
    /\ rateLimitMap = <<>>
    /\ now = 0
    /\ adminUsers \in SUBSET Users
    /\ pc = "idle"
    /\ request = NoRequest
    /\ user = "none"
    /\ body = NoBody
    /\ employees = <<>>
    /\ dirSize = 0
    /\ results = <<>>
    /\ transport = <<>>
    /\ sends = <<>>
    /\ trace = <<>>
    /\ auditLog = <<>>
    /\ response = NoResponse
    /\ rlLast = [key |-> "none", allowed |-> FALSE, fresh |-> FALSE]
    /\ windowCalls = <<>>
    /\ windowEnd = <<>>
    /\ revoked = {}
    /\ handlers = [awaiting |-> 0, passed |-> 0, denied |-> 0, peak |-> 0]
    /\ validated = [called |-> FALSE, pillar |-> Undefined, subject |-> Undefined,
                    content |-> Undefined, threw |-> FALSE, errors |-> <<>>]
    /\ sanitized = [called |-> FALSE, input |-> Undefined, output |-> <<>>]
    /\ audited = [called |-> FALSE, action |-> "", detailsLen |-> 0, storeOk |-> FALSE]
    /\ smtpConn = "closed"
    /\ smtpReq = [r \in SmtpRequests |-> SmtpIdle]
    /\ smtpOverlap = {}
    /\ timed = TimedIdle
    /\ signin = SignInIdle

Fail_noResponse(tr, status) ==
    /\ trace' = tr
    /\ auditLog' = auditLog
    /\ response' = NoResponse
    /\ pc' = "done"

\* return createErrorResponse(.., status) without an audit call
Fail(tr, status) ==
    /\ trace' = tr
    /\ auditLog' = auditLog
    /\ response' = createErrorResponse(status)
    /\ pc' = "done"

Reject_skipsAudit(tr, userId, action, detailsLen, storeOk, status) == Fail(tr, status)

\* `await logAdminAction(..)` and then return createErrorResponse(.., status);
\* an exception thrown by the awaited call would go to the outer catch
Reject(tr, userId, action, detailsLen, storeOk, status) ==
    IF logAdminActionThrows(detailsLen, storeOk)
    THEN Fail(Append(Append(tr, Ev("logAdminAction", action)), Ev("catch", "audit")), 500)
    ELSE /\ trace' = Append(tr, Ev("logAdminAction", action))
         /\ auditLog' = logAdminAction(auditLog, userId, action, detailsLen, storeOk)
         /\ response' = createErrorResponse(status)
         /\ pc' = "done"

TokenOf_untrimmed(authHeader) == RemoveFirst(authHeader.text, BearerPrefix)

\* const token = authHeader.replace('Bearer ', '').trim()
TokenOf(authHeader) == Trim(RemoveFirst(authHeader.text, BearerPrefix))

\* serve: from the arrival of the request to `await Promise.race([authPromise, ..])`
Receive(method, hasEnv, authHeader) ==
    /\ pc \in {"idle", "done"}
    /\ request' = [method |-> method, hasEnv |-> hasEnv, authHeader |-> authHeader]
    /\ user' = "none"
    /\ body' = NoBody
    /\ employees' = <<>>
    /\ dirSize' = 0
    /\ results' = <<>>
    /\ transport' = <<>>
    /\ sends' = <<>>
    /\ auditLog' = <<>>
    /\ IF method = "OPTIONS"
       THEN trace' = <<>> /\ response' = CorsResponse /\ pc' = "done"
       ELSE IF method # "POST"
       THEN trace' = <<>> /\ response' = createErrorResponse(405) /\ pc' = "done"
       ELSE IF ~hasEnv
       THEN trace' = <<>> /\ response' = createErrorResponse(500) /\ pc' = "done"
       ELSE IF ~authHeader.present \/ ~StartsWith(authHeader.text, BearerPrefix)
       THEN trace' = <<>> /\ response' = createErrorResponse(401) /\ pc' = "done"
       ELSE IF Len(TokenOf(authHeader)) < MIN_TOKEN_LENGTH
       THEN trace' = <<>> /\ response' = createErrorResponse(401) /\ pc' = "done"
       ELSE /\ trace' = <<Ev("auth.getUser", "")>>
            /\ response' = NoResponse
            /\ pc' = "auth"
    /\ UNCHANGED <<rateLimitMap, now, adminUsers, limiterVars>>

AuthAnswer_lookupBeforeLimit(ans, storeOk) ==
    /\ pc = "auth"
    /\ LET tr0 == Append(trace, Ev("auth.answer", IF ans.error THEN "error" ELSE ans.userId))
       IN  IF ans.error \/ ans.userId = "none"
           THEN /\ Reject(tr0, "unknown", "unauthorized_email_attempt", 35, storeOk, 401)
                /\ UNCHANGED user
           ELSE /\ user' = ans.userId
                /\ trace' = Append(tr0, Ev("admin_users.select", ""))
                /\ pc' = "admin"
                /\ UNCHANGED <<auditLog, response>>
    /\ UNCHANGED <<rateLimitMap, now, adminUsers, request, body, employees, dirSize,
                   results, transport, sends, limiterVars>>

\* the identity verifier answers before the 5 s timer: authentication, then
\* the rate limit, up to `await supabaseClient.from('admin_users')...single()`
AuthAnswer(ans, storeOk) ==
    /\ pc = "auth"
    /\ LET tr0 == Append(trace, Ev("auth.answer", IF ans.error THEN "error" ELSE ans.userId))
       IN  IF ans.error \/ ans.userId = "none"
           THEN /\ Reject(tr0, "unknown", "unauthorized_email_attempt", 35, storeOk, 401)
                /\ UNCHANGED <<user, rateLimitMap>>
           ELSE LET rl == checkRateLimit(rateLimitMap, ans.userId, now)
                    tr1 == Append(tr0, Ev("checkRateLimit",
                                          IF rl.allowed THEN "allowed" ELSE "denied"))
                IN  /\ user' = ans.userId
                    /\ rateLimitMap' = rl.map
                    /\ IF ~rl.allowed
                       THEN Reject(tr1, ans.userId, "rate_limit_exceeded", 2, storeOk, 429)
                       ELSE /\ trace' = Append(tr1, Ev("admin_users.select", ""))
                            /\ pc' = "admin"
                            /\ UNCHANGED <<auditLog, response>>
    /\ UNCHANGED <<now, adminUsers, request, body, employees, dirSize, results,
                   transport, sends, limiterVars>>

\* the 5 s timer fires first: the race rejects with 'Auth timeout', and only
\* the outer catch handles that rejection
AuthTimeout ==
    /\ pc = "auth"
    /\ Fail(Append(Append(trace, Ev("timeout", "auth")), Ev("catch", "Auth timeout")), 500)
    /\ UNCHANGED <<rateLimitMap, now, adminUsers, request, user, body, employees,
                   dirSize, results, transport, sends, limiterVars>>

\* the promise awaited at `stage` rejects (auth.getUser, the admin_users query
\* or the employees query throws instead of answering): the awaits are inside
\* the try block of the handler, so the outer catch answers
AwaitStages == {"auth", "admin", "directory"}
AwaitRejects(stage) ==
    /\ pc = stage
    /\ Fail(Append(trace, Ev("catch", stage)), 500)
    /\ UNCHANGED <<rateLimitMap, now, adminUsers, request, user, body, employees,
                   dirSize, results, transport, sends, limiterVars>>

\* the admin_users table changes: the record of caller u is removed or
\* inserted by another client of the database.  The handler reads the table
\* only in its lookup, so the change is taken between requests or while the
\* lookup is pending.
AllowListChange(u) ==
    /\ pc \in {"idle", "done", "admin"}
    /\ adminUsers' = IF u \in adminUsers THEN adminUsers \ {u} ELSE adminUsers \cup {u}
    /\ revoked' = IF u \notin adminUsers THEN revoked \ {u}
                  ELSE IF pc = "done" /\ user = u /\ response.kind = "success"
                  THEN revoked \cup {u}
                  ELSE revoked
    /\ UNCHANGED <<rateLimitMap, now, requestVars, rlLast, windowCalls, windowEnd,
                   handlers, validated, laterVars>>

AdminLookup_cached(lookupError, userId, admins) ==
    IF lookupError THEN "error"
    ELSE IF userId \in admins \/ userId \in revoked THEN "row" ELSE "none"

\* .from('admin_users').select('id').eq('user_id', user.id).single()
AdminLookup(lookupError, userId, admins) ==
    IF lookupError THEN "error" ELSE IF userId \in admins THEN "row" ELSE "none"

Authorized_ignoresLookupError(answer) == answer # "none"

\* if (adminError || !adminUser) -> 403
Authorized(answer) == answer = "row"

\* the allow-list lookup answers; when authorized, up to `await req.text()`
AdminAnswer(lookupError, storeOk) ==
    /\ pc = "admin"
    /\ LET answer == AdminLookup(lookupError, user, adminUsers)
           tr0 == Append(trace, Ev("admin_users.answer", answer))
       IN  IF ~Authorized(answer)
           THEN Reject(tr0, user, "unauthorized_email_attempt", 30, storeOk, 403)
           ELSE /\ trace' = Append(tr0, Ev("req.text", ""))
                /\ pc' = "body"
                /\ UNCHANGED <<auditLog, response>>
    /\ UNCHANGED <<rateLimitMap, now, adminUsers, request, user, body, employees,
                   dirSize, results, transport, sends, limiterVars>>

\* the body is read: parse, destructure and validate, up to
\* `await supabaseClient.from('employees')...limit(1000)`
BodyRead(b, storeOk) ==
    /\ pc = "body"
    /\ body' = b
    /\ IF ~b.readOk \/ b.len = 0 \/ b.len > MAX_BODY_LENGTH
            \/ b.json.kind = "syntax_error"
       THEN Reject(trace, user, "invalid_request_body", 2, storeOk, 400)
       ELSE IF b.json.kind = "null"
       THEN \* destructuring null throws a TypeError
            Fail(Append(trace, Ev("catch", "TypeError")), 500)
       ELSE LET v == Validation[b.json]
                tr == Append(trace, Ev("validateEmailInput", ""))
                pillarLen == JsonStringLen(sanitizeHtml(b.json.pillar))
            IN  IF v.threw
                THEN Fail(Append(tr, Ev("catch", "TypeError")), 500)
                ELSE IF Len(v.errors) > 0
                THEN Reject(tr, user, "email_validation_failed",
                            21 + JsonErrorsLen(v.errors) + pillarLen, storeOk, 400)
                ELSE /\ trace' = Append(tr, Ev("employees.select", ""))
                     /\ pc' = "directory"
                     /\ UNCHANGED <<auditLog, response>>
    /\ UNCHANGED <<rateLimitMap, now, adminUsers, request, user, employees,
                   dirSize, results, transport, sends, limiterVars>>

ResolveOutcome_capOffByOne(error, n) ==
    IF error THEN "database_error"
    ELSE IF n = 0 THEN "no_recipients"
    ELSE IF n > MAX_RECIPIENTS + 1 THEN "too_many_recipients"
    ELSE "dispatch"

ResolveOutcome_emptyIsError(error, n) ==
    IF error \/ n = 0 THEN "database_error"
    ELSE IF n > MAX_RECIPIENTS THEN "too_many_recipients"
    ELSE "dispatch"

\* the checks on the answer of the employees query: employeesError, then
\* !employees || employees.length === 0, then employees.length > 500
ResolveOutcome(error, n) ==
    IF error THEN "database_error"
    ELSE IF n = 0 THEN "no_recipients"
    ELSE IF n > MAX_RECIPIENTS THEN "too_many_recipients"
    ELSE "dispatch"

TaskStart_sendsToInvalid(rows) == [i \in 1..Len(rows) |-> "pending"]

\* employees.map(async (employee) => ..) up to the first await of each task:
\* a stored email that fails emailRegex makes the task throw at once; for the
\* others sendEmailViaGmail (which tests the same pattern) is called.
TaskStart(rows) ==
    [i \in 1..Len(rows) |-> IF EmailIsValid(rows[i]) THEN "pending" ELSE "invalid"]

StartDispatch_auditAfter(tr) ==
    Append(Append(tr, Ev("dispatch", "")), Ev("logAdminAction", "email_send_initiated"))

\* await logAdminAction(.., 'email_send_initiated', ..), then employees.map(..),
\* which invokes the transport for every recipient with a valid address
StartDispatch(tr) ==
    Append(Append(tr, Ev("logAdminAction", "email_send_initiated")), Ev("dispatch", ""))

\* the directory answers: the checks on the answer, the initiated audit and
\* the start of every send task, up to `await Promise.race([Promise.all(..), ..])`
DirectoryAnswer(ans, storeOk) ==
    /\ pc = "directory"
    /\ dirSize' = ans.size
    /\ employees' = ans.rows
    /\ LET pillarLen == JsonStringLen(sanitizeHtml(body.json.pillar))
           subjectLen == JsonStringLen(Substring0(sanitizeHtml(body.json.subject), 100))
           n == Len(ans.rows)
           outcome == ResolveOutcome(ans.error, n)
           tr0 == Append(trace, Ev("employees.answer", IF ans.error THEN "error" ELSE "rows"))
       IN  IF outcome = "database_error"
           THEN /\ Reject(tr0, user, "email_database_error", 11 + pillarLen, storeOk, 500)
                /\ UNCHANGED <<results, transport, sends>>
           ELSE IF outcome = "no_recipients"
           THEN /\ Reject(tr0, user, "email_no_recipients", 11 + pillarLen, storeOk, 404)
                /\ UNCHANGED <<results, transport, sends>>
           ELSE IF outcome = "too_many_recipients"
           THEN /\ Reject(tr0, user, "email_too_many_recipients",
                          20 + pillarLen + JsonNumberLen(n), storeOk, 400)
                /\ UNCHANGED <<results, transport, sends>>
           ELSE IF logAdminActionThrows(40 + pillarLen + subjectLen + JsonNumberLen(n),
                                        storeOk)
           THEN /\ Fail(Append(Append(tr0, Ev("logAdminAction", "email_send_initiated")),
                               Ev("catch", "audit")), 500)
                /\ UNCHANGED <<results, transport, sends>>
           ELSE /\ trace' = StartDispatch(tr0)
                /\ auditLog' = logAdminAction(auditLog, user, "email_send_initiated",
                                   40 + pillarLen + subjectLen + JsonNumberLen(n), storeOk)
                /\ results' = TaskStart(ans.rows)
                /\ transport' = [i \in 1..n |-> IF TaskStart(ans.rows)[i] = "pending"
                                                THEN "called" ELSE "none"]
                /\ sends' = SelectSeq([i \in 1..n |-> i],
                                      LAMBDA i : TaskStart(ans.rows)[i] = "pending")
                /\ pc' = "dispatch"
                /\ UNCHANGED response
    /\ UNCHANGED <<rateLimitMap, now, adminUsers, request, user, body, limiterVars>>

\* the transport calls in flight
InFlight == {i \in DOMAIN transport : transport[i] = "called"}

\* the transport calls that may complete next: any of those in flight; in a
\* directory larger than MaxDirectory, the earliest one
Settling ==
    IF Len(employees) <= MaxDirectory \/ InFlight = {}
    THEN InFlight
    ELSE {CHOOSE i \in InFlight : \A j \in InFlight : i <= j}

TaskResult_swallowsError(outcome) == "success"

\* const result = await Promise.race([emailSend, emailTimeout]);
\* return { success: true, .. }, or in the catch block { success: false, .. }
TaskResult(outcome) == IF outcome = "returned" THEN "success" ELSE "threw"

RaceResult_lateOverwrites(current, outcome) == TaskResult(outcome)

\* Promise.race([emailSend, emailTimeout]) settles once: the outcome of the
\* transport call becomes the result of the task only while the task is pending
RaceResult(current, outcome) ==
    IF current = "pending" THEN TaskResult(outcome) ELSE current

\* sendEmailViaGmail settles for recipient i: it returns (delivered, or the
\* simulated delivery after a failed Gmail call) or throws (fetch or the
\* simulated failure).  The task takes the outcome unless its timer won the race.
TransportComplete(i, outcome) ==
    /\ pc \in {"dispatch", "done"}
    /\ i \in InFlight
    /\ IF Len(employees) <= MaxDirectory THEN TRUE
       ELSE pc = "dispatch" /\ outcome = "returned"
    /\ transport' = [transport EXCEPT ![i] = outcome]
    /\ results' = [results EXCEPT ![i] = RaceResult(results[i], outcome)]
    /\ UNCHANGED <<rateLimitMap, now, adminUsers, pc, request, user, body, employees,
                   dirSize, sends, trace, auditLog, response, limiterVars>>

\* the 5 s timer of task i fires while the task is pending.  The timers were
\* created in task order with the same delay, so they fire in that order: the
\* tasks before i are settled when timer i fires.
SendTimeout(i) ==
    /\ pc = "dispatch"
    /\ Len(employees) <= MaxDirectory
    /\ i \in DOMAIN results
    /\ results[i] = "pending"
    /\ \A j \in 1..(i - 1) : results[j] # "pending"
    /\ results' = [results EXCEPT ![i] = "timeout"]
    /\ UNCHANGED <<rateLimitMap, now, adminUsers, pc, request, user, body, employees,
                   dirSize, transport, sends, trace, auditLog, response, limiterVars>>

\* results.filter(r => r.success).length
successCount(rs) == Cardinality({i \in DOMAIN rs : rs[i] = "success"})

failureCount_thrownOnly(rs) == Cardinality({i \in DOMAIN rs : rs[i] = "threw"})

\* results.filter(r => !r.success).length
failureCount(rs) == Cardinality({i \in DOMAIN rs : rs[i] # "success"})

\* Promise.all(emailPromises) resolves: the tally, the completed audit and the
\* 200 response.  Every task settles by its own 5 s timer, which fires before
\* the 15 s timer created after it, so the race is always won by Promise.all.
Finish(storeOk) ==
    /\ pc = "dispatch"
    /\ \A i \in DOMAIN results : results[i] # "pending"
    /\ LET pillarLen == JsonStringLen(sanitizeHtml(body.json.pillar))
           detailsLen == 62 + pillarLen + JsonNumberLen(successCount(results))
                           + JsonNumberLen(failureCount(results))
                           + JsonNumberLen(Len(employees))
           tr == Append(Append(trace, Ev("Promise.all", "")),
                        Ev("logAdminAction", "email_send_completed"))
       IN  IF logAdminActionThrows(detailsLen, storeOk)
           THEN Fail(Append(tr, Ev("catch", "audit")), 500)
           ELSE /\ trace' = tr
                /\ auditLog' = logAdminAction(auditLog, user, "email_send_completed",
                                              detailsLen, storeOk)
                /\ response' = SuccessResponse(successCount(results),
                                               failureCount(results))
                /\ pc' = "done"
    /\ UNCHANGED <<rateLimitMap, now, adminUsers, request, user, body, employees,
                   dirSize, results, transport, sends, limiterVars>>

Next ==
    \/ \E m \in Methods, e \in BOOLEAN, h \in AuthHeaderSamples : Receive(m, e, h)
    \/ \E a \in AuthAnswers, ok \in BOOLEAN : AuthAnswer(a, ok)
    \/ AuthTimeout
    \/ \E stage \in AwaitStages : AwaitRejects(stage)
    \/ \E u \in Users : AllowListChange(u)
    \/ \E err \in BOOLEAN, ok \in BOOLEAN : AdminAnswer(err, ok)
    \/ \E b \in BodySamples, ok \in BOOLEAN : BodyRead(b, ok)
    \/ \E d \in DirectoryAnswers, ok \in BOOLEAN : DirectoryAnswer(d, ok)
    \/ \E i \in Settling, o \in {"returned", "threw"} : TransportComplete(i, o)
    \/ \E i \in DOMAIN results : SendTimeout(i)
    \/ \E ok \in BOOLEAN : Finish(ok)

Spec == Init /\ [][Next]_vars

(***************************************************************************)
(* The handler where timers give no ordering guarantee.  In Spec the 15 s  *)
(* timer never wins its race, because the 5 s timer of every task is due   *)
(* earlier.  SpecTimers drops that and lets the 15 s timer fire while a    *)
(* task is pending.                                                        *)
(***************************************************************************)
BatchTimeout_partialTally ==
    /\ pc = "dispatch"
    /\ Len(employees) <= MaxDirectory
    /\ \E i \in DOMAIN results : results[i] = "pending"
    /\ trace' = Append(trace, Ev("timeout", "batch"))
    /\ response' = SuccessResponse(successCount(results), failureCount(results))
    /\ pc' = "done"
    /\ UNCHANGED <<rateLimitMap, now, adminUsers, request, user, body, employees,
                   dirSize, results, transport, sends, auditLog, limiterVars>>

\* allEmailsTimeout rejects with 'Email sending timeout': the race rejects, the
\* tally and the completed audit are skipped, the outer catch answers
BatchTimeout ==
    /\ pc = "dispatch"
    /\ Len(employees) <= MaxDirectory
    /\ \E i \in DOMAIN results : results[i] = "pending"
    /\ Fail(Append(Append(trace, Ev("timeout", "batch")),
                   Ev("catch", "Email sending timeout")), 500)
    /\ UNCHANGED <<rateLimitMap, now, adminUsers, request, user, body, employees,
                   dirSize, results, transport, sends, limiterVars>>

NextTimers ==
    \/ Next
    \/ BatchTimeout

SpecTimers == Init /\ [][NextTimers]_vars

(***************************************************************************)
(* The earlier revision of the handler kept in send-email/index.ts, which  *)
(* sends through the Resend API: no method, configuration or token checks, *)
(* no timers, no rate limit, and responses built in place.  request.hasEnv *)
(* stands for RESEND_API_KEY, the only environment value it tests.         *)
(***************************************************************************)
\* validateEmailInput of that revision; the result is [threw, errors]
resendValidateEmailInput(pillar, subject, content) ==
    LET pillarErrors ==
            IF NotTrimmed(pillar) THEN <<"Pillar is required">> ELSE <<>>
        subjectErrors ==
            IF NotTrimmed(subject) THEN <<"Subject is required">>
            ELSE IF Len(subject.text) > MAX_SUBJECT_LENGTH
                 THEN <<"Subject must be less than 200 characters">>
            ELSE <<>>
        contentErrors ==
            IF NotTrimmed(content) THEN <<"Content is required">>
            ELSE IF Len(content.text) > MAX_CONTENT_LENGTH
                 THEN <<"Content must be less than 10,000 characters">>
            ELSE <<>>
    IN  IF TrimThrows(pillar) \/ TrimThrows(subject) \/ TrimThrows(content)
        THEN [threw |-> TRUE, errors |-> <<>>]
        ELSE [threw |-> FALSE, errors |-> pillarErrors \o subjectErrors \o contentErrors]

ResendValidation ==
    [j \in ObjectBodies \cup {Json("scalar", Undefined, Undefined, Undefined)} |->
        resendValidateEmailInput(j.pillar, j.subject, j.content)]

\* logAdminAction of that revision: the details are inserted as they are
resendLogAdminAction(log, userId, action, storeOk) ==
    IF storeOk THEN Append(log, [admin_user_id |-> userId, action |-> action]) ELSE log

\* new Response(JSON.stringify({ error: message }), { status, .. }); the body
\* of a validation failure has the further key `details`
ResendErrorResponse(status, message, details) ==
    [kind |-> "error", status |-> status, error |-> message, details |-> details,
     recipients |-> 0, failures |-> 0]

\* the 200 response of the branch without RESEND_API_KEY
ResendSimulatedResponse(n) ==
    [kind |-> "simulated", status |-> 200, error |-> "", details |-> <<>>,
     recipients |-> n, failures |-> 0]

ResendBodies == {b \in BodySamples : b.len <= MAX_BODY_LENGTH}
ResendDirectoryAnswers == {d \in DirectoryAnswers : d.size <= MaxDirectory}

\* `await logAdminAction(..)` and then the error response
ResendReject(tr, userId, action, storeOk, status, message, details) ==
    /\ trace' = Append(tr, Ev("logAdminAction", action))
    /\ auditLog' = resendLogAdminAction(auditLog, userId, action, storeOk)
    /\ response' = ResendErrorResponse(status, message, details)
    /\ pc' = "done"

\* the outer catch of that revision
ResendCatch(tr, message) ==
    /\ trace' = Append(tr, Ev("catch", message))
    /\ auditLog' = auditLog
    /\ response' = ResendErrorResponse(500, "Internal server error occurred", <<>>)
    /\ pc' = "done"

\* from the arrival of the request to `await supabaseClient.auth.getUser(token)`
ResendReceive(method, hasKey, authHeader) ==
    /\ pc \in {"idle", "done"}
    /\ request' = [method |-> method, hasEnv |-> hasKey, authHeader |-> authHeader]
    /\ user' = "none"
    /\ body' = NoBody
    /\ employees' = <<>>
    /\ dirSize' = 0
    /\ results' = <<>>
    /\ transport' = <<>>
    /\ sends' = <<>>
    /\ auditLog' = <<>>
    /\ IF method = "OPTIONS"
       THEN trace' = <<>> /\ response' = CorsResponse /\ pc' = "done"
       ELSE IF ~authHeader.present
       THEN /\ trace' = <<>>
            /\ response' = ResendErrorResponse(401, "Authorization header required", <<>>)
            /\ pc' = "done"
       ELSE /\ trace' = <<Ev("auth.getUser", "")>>
            /\ response' = NoResponse
            /\ pc' = "auth"
    /\ UNCHANGED <<rateLimitMap, now, adminUsers, limiterVars>>

\* the identity verifier answers; up to the await of the allow-list lookup
ResendAuthAnswer(ans, storeOk) ==
    /\ pc = "auth"
    /\ LET tr0 == Append(trace, Ev("auth.answer", IF ans.error THEN "error" ELSE ans.userId))
       IN  IF ans.error \/ ans.userId = "none"
           THEN /\ ResendReject(tr0, "unknown", "unauthorized_email_attempt", storeOk,
                                401, "Authentication failed", <<>>)
                /\ UNCHANGED user
           ELSE /\ user' = ans.userId
                /\ trace' = Append(tr0, Ev("admin_users.select", ""))
                /\ pc' = "admin"
                /\ UNCHANGED <<auditLog, response>>
    /\ UNCHANGED <<rateLimitMap, now, adminUsers, request, body, employees, dirSize,
                   results, transport, sends, limiterVars>>

\* the allow-list lookup answers; when authorized, up to `await req.json()`
ResendAdminAnswer(lookupError, storeOk) ==
    /\ pc = "admin"
    /\ LET answer == AdminLookup(lookupError, user, adminUsers)
           tr0 == Append(trace, Ev("admin_users.answer", answer))
       IN  IF ~Authorized(answer)
           THEN ResendReject(tr0, user, "unauthorized_email_attempt", storeOk,
                             403, "Insufficient permissions", <<>>)
           ELSE /\ trace' = Append(tr0, Ev("req.json", ""))
                /\ pc' = "body"
                /\ UNCHANGED <<auditLog, response>>
    /\ UNCHANGED <<rateLimitMap, now, adminUsers, request, user, body, employees,
                   dirSize, results, transport, sends, limiterVars>>

\* req.json() settles: destructure and validate, up to the await of the
\* employees query.  A body that cannot be read or parsed makes req.json()
\* reject, which the outer catch handles.
ResendBodyRead(b, storeOk) ==
    /\ pc = "body"
    /\ body' = b
    /\ IF ~b.readOk \/ b.len = 0 \/ b.json.kind = "syntax_error"
       THEN ResendCatch(trace, "SyntaxError")
       ELSE IF b.json.kind = "null"
       THEN ResendCatch(trace, "TypeError")
       ELSE LET v == ResendValidation[b.json]
                tr == Append(trace, Ev("validateEmailInput", ""))
            IN  IF v.threw
                THEN ResendCatch(tr, "TypeError")
                ELSE IF Len(v.errors) > 0
                THEN ResendReject(tr, user, "email_validation_failed", storeOk,
                                  400, "Validation failed", v.errors)
                ELSE /\ trace' = Append(tr, Ev("employees.select", ""))
                     /\ pc' = "directory"
                     /\ UNCHANGED <<auditLog, response>>
    /\ UNCHANGED <<rateLimitMap, now, adminUsers, request, user, employees,
                   dirSize, results, transport, sends, limiterVars>>

\* the directory answers: the checks on the answer, the initiated audit, and
\* either the start of one fetch per row or the simulated branch
ResendDirectoryAnswer(ans, storeOk) ==
    /\ pc = "directory"
    /\ dirSize' = ans.size
    /\ employees' = ans.rows
    /\ LET n == Len(ans.rows)
           tr0 == Append(trace, Ev("employees.answer", IF ans.error THEN "error" ELSE "rows"))
           tr1 == Append(tr0, Ev("logAdminAction", "email_send_initiated"))
           log1 == resendLogAdminAction(auditLog, user, "email_send_initiated", storeOk)
       IN  IF ans.error
           THEN /\ ResendReject(tr0, user, "email_database_error", storeOk,
                                500, "Failed to retrieve employee data", <<>>)
                /\ UNCHANGED <<results, transport, sends>>
           ELSE IF n = 0
           THEN /\ ResendReject(tr0, user, "email_no_recipients", storeOk,
                                404, "No employees found for the specified pillar", <<>>)
                /\ UNCHANGED <<results, transport, sends>>
           ELSE IF request.hasEnv
           THEN /\ trace' = Append(tr1, Ev("dispatch", ""))
                /\ auditLog' = log1
                /\ results' = [i \in 1..n |-> "pending"]
                /\ transport' = [i \in 1..n |-> "called"]
                /\ sends' = [i \in 1..n |-> i]
                /\ pc' = "dispatch"
                /\ UNCHANGED response
           ELSE /\ trace' = Append(tr1, Ev("logAdminAction", "email_send_simulated"))
                /\ auditLog' = resendLogAdminAction(log1, user, "email_send_simulated",
                                                    storeOk)
                /\ response' = ResendSimulatedResponse(n)
                /\ pc' = "done"
                /\ UNCHANGED <<results, transport, sends>>
    /\ UNCHANGED <<rateLimitMap, now, adminUsers, request, user, body, limiterVars>>

\* Promise.all(emailPromises) resolves: the tally, the completed audit, the 200
ResendFinish(storeOk) ==
    /\ pc = "dispatch"
    /\ \A i \in DOMAIN results : results[i] # "pending"
    /\ trace' = Append(Append(trace, Ev("Promise.all", "")),
                       Ev("logAdminAction", "email_send_completed"))
    /\ auditLog' = resendLogAdminAction(auditLog, user, "email_send_completed", storeOk)
    /\ response' = SuccessResponse(successCount(results), failureCount(results))
    /\ pc' = "done"
    /\ UNCHANGED <<rateLimitMap, now, adminUsers, request, user, body, employees,
                   dirSize, results, transport, sends, limiterVars>>

\* fetch('https://api.resend.com/emails') and response.json() settle for row i
ResendTransportComplete(i, outcome) ==
    /\ pc = "dispatch"
    /\ TransportComplete(i, outcome)

NextResend ==
    \/ \E m \in Methods, k \in BOOLEAN, h \in AuthHeaderSamples : ResendReceive(m, k, h)
    \/ \E a \in AuthAnswers, ok \in BOOLEAN : ResendAuthAnswer(a, ok)
    \/ \E err \in BOOLEAN, ok \in BOOLEAN : ResendAdminAnswer(err, ok)
    \/ \E b \in ResendBodies, ok \in BOOLEAN : ResendBodyRead(b, ok)
    \/ \E d \in ResendDirectoryAnswers, ok \in BOOLEAN : ResendDirectoryAnswer(d, ok)
    \/ \E i \in InFlight, o \in {"returned", "threw"} : ResendTransportComplete(i, o)
    \/ \E ok \in BOOLEAN : ResendFinish(ok)

SpecResend == Init /\ [][NextResend]_vars

(***************************************************************************)
(* The rate limiter alone: calls of checkRateLimit for any key at any time. *)
(* The observer variables count, per key, the calls made since the call     *)
(* that opened the current window.                                          *)
(***************************************************************************)
RLCall(k) ==
    LET fresh == IF k \in DOMAIN windowEnd THEN now > windowEnd[k] ELSE TRUE
        rl == checkRateLimit(rateLimitMap, k, now)
    IN  /\ pc = "idle"
        /\ IF fresh THEN TRUE ELSE windowCalls[k] < MaxCallsPerWindow
        /\ rateLimitMap' = rl.map
        /\ rlLast' = [key |-> k, allowed |-> rl.allowed, fresh |-> fresh]
        /\ windowCalls' = MapSet(windowCalls, k, IF fresh THEN 1 ELSE windowCalls[k] + 1)
        /\ windowEnd' = MapSet(windowEnd, k,
                               IF fresh THEN now + RATE_LIMIT_WINDOW ELSE windowEnd[k])
        /\ UNCHANGED <<now, adminUsers, requestVars, revoked, handlers, validated,
                       laterVars>>

\* time passes: one millisecond, or a whole window
Tick(delta) ==
    /\ pc = "idle"
    /\ IF delta = 1
       THEN now % RATE_LIMIT_WINDOW < MaxUnitTicks
       ELSE now \div RATE_LIMIT_WINDOW < MaxWindowTicks
    /\ now' = now + delta
    /\ UNCHANGED <<rateLimitMap, adminUsers, requestVars, limiterVars>>

NextRL ==
    \/ \E k \in Keys : RLCall(k)
    \/ \E d \in {1, RATE_LIMIT_WINDOW} : Tick(d)

SpecRL == Init /\ [][NextRL]_vars

(***************************************************************************)
(* Concurrent requests of one caller.  The handlers of one isolate run on  *)
(* one thread and are interleaved only at their awaits.  The only await    *)
(* before the rate limit is the one on the identity verifier; the call of  *)
(* checkRateLimit and the branch on its result contain no await, so each   *)
(* handler reads and updates rateLimitMap in one step.  The requests of    *)
(* one caller differ in nothing the limiter reads, so they are counted.    *)
(***************************************************************************)
ConcurrentCaller == CHOOSE u \in Users : TRUE

\* a request of the caller arrives and runs up to `await Promise.race([authPromise, ..])`
ConcurrentReceive ==
    /\ pc = "idle"
    /\ handlers.awaiting + handlers.passed + handlers.denied < MaxConcurrent
    /\ handlers' = [handlers EXCEPT !.awaiting = @ + 1,
                                    !.peak = IF handlers.awaiting + 1 > @
                                             THEN handlers.awaiting + 1 ELSE @]
    /\ UNCHANGED <<rateLimitMap, now, adminUsers, requestVars, rlLast, windowCalls,
                   windowEnd, revoked, validated, laterVars>>

\* one of the awaiting handlers resumes: with a verified user it calls
\* checkRateLimit(user.id) and goes on to its next await (the audit write of
\* the 429, or the allow-list lookup); otherwise it ends without the call
ConcurrentAuthAnswer(verified) ==
    /\ pc = "idle"
    /\ handlers.awaiting > 0
    /\ IF verified
       THEN LET rl == checkRateLimit(rateLimitMap, ConcurrentCaller, now)
            IN  /\ rateLimitMap' = rl.map
                /\ handlers' = IF rl.allowed
                               THEN [handlers EXCEPT !.awaiting = @ - 1, !.passed = @ + 1]
                               ELSE [handlers EXCEPT !.awaiting = @ - 1, !.denied = @ + 1]
       ELSE /\ rateLimitMap' = rateLimitMap
            /\ handlers' = [handlers EXCEPT !.awaiting = @ - 1]
    /\ UNCHANGED <<now, adminUsers, requestVars, rlLast, windowCalls, windowEnd, revoked,
                   validated, laterVars>>

NextConcurrent ==
    \/ ConcurrentReceive
    \/ \E v \in BOOLEAN : ConcurrentAuthAnswer(v)
    \/ Tick(1)

SpecConcurrent == Init /\ [][NextConcurrent]_vars

(***************************************************************************)
(* validateEmailInput alone, called once with arguments drawn from the     *)
(* values below: absent, null, non-string, empty, blank, ordinary, at and  *)
(* over each length limit, with characters outside the pillar alphabet,    *)
(* and with text that the denylist matches.                                *)
(***************************************************************************)
PillarInputs ==
    PillarSamples \cup
    { Null, Str(<<>>), Str(<<"a"," ","b","-","c","_","1">>),
      Str(Rep("a", MAX_PILLAR_LENGTH)), Str(Rep("!", MAX_PILLAR_LENGTH + 1)) }
SubjectInputs ==
    SubjectSamples \cup
    { Undefined, Str(<<" ">>), Str(Rep("b", MAX_SUBJECT_LENGTH)),
      Str(<<"e","v","a","l">>), Num(<<"7">>) }
ContentInputs ==
    ContentSamples \cup
    { Undefined, Str(<<>>), Str(<<" ","\n">>), Str(Rep("c", MAX_CONTENT_LENGTH)),
      Str(<<"(","1",")">>) }

\* every combination of the short values, and the contents at and over the
\* limit with a few pillars and subjects
LongContents == {c \in ContentInputs : Len(c.text) >= MAX_CONTENT_LENGTH}
ValidateInputs ==
    (PillarInputs \X SubjectInputs \X (ContentInputs \ LongContents))
      \cup ({BasePillar, Str(<<" ">>)}
              \X {BaseSubject, Str(Rep("b", MAX_SUBJECT_LENGTH))}
              \X LongContents)

ValidateCall(p, s, c) ==
    /\ pc = "idle"
    /\ ~validated.called
    /\ LET v == validateEmailInput(p, s, c)
       IN  validated' = [called |-> TRUE, pillar |-> p, subject |-> s, content |-> c,
                         threw |-> v.threw, errors |-> v.errors]
    /\ UNCHANGED <<rateLimitMap, now, adminUsers, requestVars, rlLast, windowCalls,
                   windowEnd, revoked, handlers, laterVars>>

NextValidate ==
    \E in \in ValidateInputs : ValidateCall(in[1], in[2], in[3])

SpecValidate == Init /\ [][NextValidate]_vars

(***************************************************************************)
(* sanitizeHtml alone, called once.  The arguments are the values that are *)
(* not strings and every text made of up to MaxFragments of the fragments  *)
(* below: the tokens sanitizeHtml removes, in both letter cases, the       *)
(* halves that make a token when the text between them is removed, markup  *)
(* with a script element and with an event handler, and a plain name.      *)
(***************************************************************************)
MaxFragments == 3

SanitizeFragments ==
    { <<"j","a","v","a">>, <<"s","c","r","i","p","t",":">>,
      <<"j","a","v","a","s","c","r","i","p","t",":">>,
      <<"J","a","v","a","S","c","r","i","p","t",":">>,
      <<"d","a">>, <<"t","a",":">>, <<"d","a","t","a",":">>,
      <<"v","b">>, <<"V","B","S","C","R","I","P","T",":">>,
      <<"<","s","c","r","i","p","t",">","x","<","/","s","c","r","i","p","t",">">>,
      <<"<","a"," ","o","n","c","l","i","c","k","=","x",">">>,
      <<"A","n","n">> }

RECURSIVE Flatten(_, _)
Flatten(fs, k) == IF k > Len(fs) THEN <<>> ELSE fs[k] \o Flatten(fs, k + 1)

\* the subject and content of a request pass validateEmailInput first; the
\* name of a recipient comes from the directory as it is stored
SanitizeInputs ==
    {Undefined, Null, Num(<<"5">>)}
      \cup {Str(Flatten(fs, 1)) :
               fs \in UNION {[1..n -> SanitizeFragments] : n \in 0..MaxFragments}}

SanitizeCall(input) ==
    /\ pc = "idle"
    /\ ~sanitized.called
    /\ sanitized' = [called |-> TRUE, input |-> input, output |-> sanitizeHtml(input)]
    /\ UNCHANGED <<rateLimitMap, now, adminUsers, requestVars, rlLast, windowCalls,
                   windowEnd, revoked, handlers, validated, audited, smtpVars, timed, signin>>

NextSanitize ==
    \E input \in SanitizeInputs : SanitizeCall(input)

SpecSanitize == Init /\ [][NextSanitize]_vars

(***************************************************************************)
(* logAdminAction alone, called once with a details object of the handler: *)
(* the empty object of the 400 for an unreadable body and of the 429, and  *)
(* {errors, pillar} of a validation failure, for pillars of every length   *)
(* in AuditPillarLens (the body may have up to 50000 characters).          *)
(***************************************************************************)
AuditPillarLens == {25 * k : k \in 5..60}

\* JSON.stringify({ errors: validationErrors, pillar: sanitizeHtml(pillar) }).length
ValidationDetailsLen(pillar) ==
    21 + JsonErrorsLen(validateEmailInput(pillar, BaseSubject, BaseContent).errors)
       + JsonStringLen(sanitizeHtml(pillar))

AuditDetails ==
    {<<"invalid_request_body", 2>>, <<"rate_limit_exceeded", 2>>}
      \cup {<<"email_validation_failed", ValidationDetailsLen(Str(Rep("a", n)))>> :
               n \in AuditPillarLens}

AuditCall(userId, action, detailsLen, storeOk) ==
    /\ pc = "idle"
    /\ ~audited.called
    /\ auditLog' = logAdminAction(auditLog, userId, action, detailsLen, storeOk)
    /\ audited' = [called |-> TRUE, action |-> action, detailsLen |-> detailsLen,
                   storeOk |-> storeOk]
    /\ UNCHANGED <<rateLimitMap, now, adminUsers, pc, request, user, body, employees,
                   dirSize, results, transport, sends, trace, response, rlLast,
                   windowCalls, windowEnd, revoked, handlers, validated, sanitized,
                   smtpVars, timed, signin>>

NextAudit ==
    \E u \in Users, d \in AuditDetails, ok \in BOOLEAN : AuditCall(u, d[1], d[2], ok)

SpecAudit == Init /\ [][NextAudit]_vars

(***************************************************************************)
(* The dispatch of the handler with its clock.  employees.map(..) runs     *)
(* the tasks one after the other up to their first await: a task whose     *)
(* address fails the pattern throws at once, every other task creates its  *)
(* timer of SEND_TIMEOUT_MS and then calls the transport.  The batch timer *)
(* of BATCH_TIMEOUT_MS is created after the last task.  Time may pass      *)
(* between two creations (gaps).  A timer fires no earlier than its        *)
(* deadline, and the timers fire in the order of their deadlines, timers   *)
(* of equal deadline in the order of their creation.  The continuation of  *)
(* a settled promise (the tally after Promise.all) runs before the next    *)
(* timer callback.                                                         *)
(***************************************************************************)
SEND_TIMEOUT_MS == 5000
BATCH_TIMEOUT_MS == 15000
BatchTimer == 0

RECURSIVE SumUpTo(_, _)
SumUpTo(gaps, k) == IF k = 0 THEN 0 ELSE gaps[k] + SumUpTo(gaps, k - 1)

\* the timers that have not fired, and the deadline of each
TimersWaiting ==
    {i \in DOMAIN timed.due : timed.due[i] > 0 /\ i \notin timed.fired}
      \cup (IF BatchTimer \in timed.fired THEN {} ELSE {BatchTimer})
Deadline(t) == IF t = BatchTimer THEN timed.batchDue ELSE timed.due[t]
\* the batch timer was created last
CreatedBefore(t, u) == t # BatchTimer /\ (u = BatchTimer \/ t < u)

TimersRunnable_anyDue == {t \in TimersWaiting : Deadline(t) <= timed.now}

\* the timer whose callback runs next, once it is due
TimersRunnable ==
    {t \in TimersWaiting :
        /\ Deadline(t) <= timed.now
        /\ \A u \in TimersWaiting \ {t} :
              Deadline(t) < Deadline(u) \/ (Deadline(t) = Deadline(u) /\ CreatedBefore(t, u))}

\* Promise.all(emailPromises) has resolved and its continuation has not run
TallyRunnable ==
    timed.pc = "dispatch" /\ \A i \in DOMAIN timed.results : timed.results[i] # "pending"

\* employees.map(..) and the creation of the batch timer, up to
\* `await Promise.race([Promise.all(emailPromises), allEmailsTimeout])`
TimedDispatch(rows, gaps) ==
    /\ pc = "idle"
    /\ timed.pc = "idle"
    /\ LET n == Len(rows)
           created(i) == timed.now + SumUpTo(gaps, i)
       IN  timed' = [timed EXCEPT
                       !.pc = "dispatch",
                       !.rows = rows,
                       !.results = TaskStart(rows),
                       !.transport = [i \in 1..n |-> IF TaskStart(rows)[i] = "pending"
                                                     THEN "called" ELSE "none"],
                       !.due = [i \in 1..n |-> IF TaskStart(rows)[i] = "pending"
                                               THEN created(i) + SEND_TIMEOUT_MS ELSE 0],
                       !.batchDue = created(n + 1) + BATCH_TIMEOUT_MS,
                       !.now = created(n + 1)]
    /\ UNCHANGED <<rateLimitMap, now, adminUsers, requestVars, rlLast, windowCalls,
                   windowEnd, revoked, handlers, validated, sanitized, audited, smtpVars,
                   signin>>

\* sendEmailViaGmail settles for task i
TimedTransportComplete(i, outcome) ==
    /\ pc = "idle"
    /\ timed.pc \in {"dispatch", "done"}
    /\ ~TallyRunnable
    /\ i \in DOMAIN timed.transport
    /\ timed.transport[i] = "called"
    /\ timed' = [timed EXCEPT !.transport[i] = outcome,
                              !.results[i] = RaceResult(@, outcome)]
    /\ UNCHANGED <<rateLimitMap, now, adminUsers, requestVars, rlLast, windowCalls,
                   windowEnd, revoked, handlers, validated, sanitized, audited, smtpVars,
                   signin>>

\* time passes, until after the deadline of the batch timer
TimedTick(delta) ==
    /\ pc = "idle"
    /\ timed.pc \in {"dispatch", "done"}
    /\ ~TallyRunnable
    /\ timed.now <= timed.batchDue
    /\ timed' = [timed EXCEPT !.now = @ + delta]
    /\ UNCHANGED <<rateLimitMap, now, adminUsers, requestVars, rlLast, windowCalls,
                   windowEnd, revoked, handlers, validated, sanitized, audited, smtpVars,
                   signin>>

\* the callback of timer t runs.  The timer of a task rejects emailTimeout:
\* the task fails unless its race is settled.  The batch timer rejects
\* allEmailsTimeout: unless the outer race is settled the outer catch
\* answers 500.
TimerFires(t) ==
    /\ pc = "idle"
    /\ timed.pc \in {"dispatch", "done"}
    /\ ~TallyRunnable
    /\ t \in TimersRunnable
    /\ timed' =
          IF t # BatchTimer
          THEN [timed EXCEPT !.fired = @ \cup {t},
                             !.results[t] = IF @ = "pending" THEN "timeout" ELSE @]
          ELSE IF timed.pc = "dispatch"
          THEN [timed EXCEPT !.fired = @ \cup {t}, !.pc = "done", !.status = 500]
          ELSE [timed EXCEPT !.fired = @ \cup {t}]
    /\ UNCHANGED <<rateLimitMap, now, adminUsers, requestVars, rlLast, windowCalls,
                   windowEnd, revoked, handlers, validated, sanitized, audited, smtpVars,
                   signin>>

\* the continuation of the outer race: the tally and the 200 response
TimedFinish ==
    /\ pc = "idle"
    /\ TallyRunnable
    /\ timed' = [timed EXCEPT !.pc = "done", !.status = 200,
                              !.recipients = successCount(timed.results),
                              !.failures = failureCount(timed.results)]
    /\ UNCHANGED <<rateLimitMap, now, adminUsers, requestVars, rlLast, windowCalls,
                   windowEnd, revoked, handlers, validated, sanitized, audited, smtpVars,
                   signin>>

NextTimed ==
    \/ \E n \in 1..MaxTimedRows :
          \E rows \in [1..n -> RowKinds], gaps \in [1..(n + 1) -> {0, 6000}] :
              TimedDispatch(rows, gaps)
    \/ \E i \in 1..MaxTimedRows, o \in {"returned", "threw"} : TimedTransportComplete(i, o)
    \/ \E d \in {2500} : TimedTick(d)
    \/ \E t \in 0..MaxTimedRows : TimerFires(t)
    \/ TimedFinish

SpecTimed == Init /\ [][NextTimed]_vars

(***************************************************************************)
(* The SMTP revision of the handler (send-email/index.ts), from the answer *)
(* of the directory on; the stages before are those of the handler above.  *)
(* Several requests are in progress at once: their handlers run on one     *)
(* thread, are interleaved at their awaits, and all use the one smtpClient *)
(* of the module.  A send of a request is "called" while it is in flight,  *)
(* "cut" once the connection it runs on was closed or replaced, and ends   *)
(* "returned", "threw", or "lost" (it threw after it was cut).  The client *)
(* library is not part of the repository: what happens to the sends in     *)
(* flight when connectTLS() replaces the connection, and whether close()   *)
(* on a closed connection throws, are left open.                           *)
(***************************************************************************)
SmtpInFlight(r) ==
    {i \in DOMAIN smtpReq[r].sends : smtpReq[r].sends[i] \in {"called", "cut"}}
SmtpOthersInFlight(r) == {q \in SmtpRequests \ {r} : SmtpInFlight(q) # {}}

\* the sends in flight of the requests other than r lose their connection
SmtpCutOthers(reqs, r) ==
    [q \in SmtpRequests |->
        IF q = r THEN reqs[q]
        ELSE [reqs[q] EXCEPT !.sends =
                 [i \in DOMAIN @ |-> IF @[i] = "called" THEN "cut" ELSE @[i]]]]

\* the directory answered request r with rows: the initiated audit, then
\* `await smtpClient.connectTLS({..})`
SmtpDispatch(r, rows) ==
    /\ pc = "idle"
    /\ smtpReq[r].pc = "idle"
    /\ smtpReq' = [smtpReq EXCEPT ![r].pc = "connecting", ![r].rows = rows]
    /\ smtpOverlap' = smtpOverlap \cup
                         {[op |-> "connectTLS", by |-> r, during |-> q] :
                             q \in SmtpOthersInFlight(r)}
    /\ UNCHANGED <<rateLimitMap, now, adminUsers, requestVars, rlLast, windowCalls,
                   windowEnd, revoked, handlers, validated, sanitized, audited, smtpConn,
                   timed, signin>>

\* connectTLS settles for request r.  When it rejects the outer catch answers
\* 500.  When it resolves the client holds the new connection, and
\* employees.map(..) calls smtpClient.send for every row with a valid address,
\* up to `await Promise.all(emailPromises)`.
SmtpConnected(r, ok, cutsOthers) ==
    /\ pc = "idle"
    /\ smtpReq[r].pc = "connecting"
    /\ IF ~ok
       THEN /\ smtpReq' = [smtpReq EXCEPT ![r].pc = "done", ![r].status = 500]
            /\ UNCHANGED smtpConn
       ELSE /\ smtpConn' = "open"
            /\ smtpReq' =
                  [(IF cutsOthers THEN SmtpCutOthers(smtpReq, r) ELSE smtpReq)
                     EXCEPT ![r].pc = "sending",
                            ![r].sends = [i \in DOMAIN smtpReq[r].rows |->
                                            IF EmailIsValid(smtpReq[r].rows[i])
                                            THEN "called" ELSE "none"]]
    /\ UNCHANGED <<rateLimitMap, now, adminUsers, requestVars, rlLast, windowCalls,
                   windowEnd, revoked, handlers, validated, sanitized, audited,
                   smtpOverlap, timed, signin>>

\* smtpClient.send settles for row i of request r: it resolves or rejects;
\* a send whose connection is gone rejects
SmtpSendComplete(r, i, outcome) ==
    /\ pc = "idle"
    /\ i \in SmtpInFlight(r)
    /\ smtpReq' = [smtpReq EXCEPT ![r].sends[i] =
                      IF @ = "cut" THEN "lost" ELSE outcome]
    /\ UNCHANGED <<rateLimitMap, now, adminUsers, requestVars, rlLast, windowCalls,
                   windowEnd, revoked, handlers, validated, sanitized, audited,
                   smtpConn, smtpOverlap, timed, signin>>

\* Promise.all(emailPromises) resolves for request r: the tally, then
\* `await smtpClient.close()`, which closes the connection the client holds
SmtpAllSettled(r) ==
    /\ pc = "idle"
    /\ smtpReq[r].pc = "sending"
    /\ SmtpInFlight(r) = {}
    /\ LET sent == {i \in DOMAIN smtpReq[r].sends : smtpReq[r].sends[i] = "returned"}
       IN  smtpReq' = [SmtpCutOthers(smtpReq, r)
                         EXCEPT ![r].pc = "closing",
                                ![r].closeThrows = (smtpConn = "closed"),
                                ![r].recipients = Cardinality(sent),
                                ![r].failures = Len(smtpReq[r].sends) - Cardinality(sent)]
    /\ smtpConn' = "closed"
    /\ smtpOverlap' = smtpOverlap \cup
                         {[op |-> "close", by |-> r, during |-> q] :
                             q \in SmtpOthersInFlight(r)}
    /\ UNCHANGED <<rateLimitMap, now, adminUsers, requestVars, rlLast, windowCalls,
                   windowEnd, revoked, handlers, validated, sanitized, audited, timed, signin>>

\* close() settles for request r: the completed audit and the 200 response;
\* when it rejects (the connection was closed already) the outer catch
\* answers 500
SmtpFinish(r, closeOk) ==
    /\ pc = "idle"
    /\ smtpReq[r].pc = "closing"
    /\ closeOk \/ smtpReq[r].closeThrows
    /\ smtpReq' = [smtpReq EXCEPT ![r].pc = "done",
                                  ![r].status = IF closeOk THEN 200 ELSE 500]
    /\ UNCHANGED <<rateLimitMap, now, adminUsers, requestVars, rlLast, windowCalls,
                   windowEnd, revoked, handlers, validated, sanitized, audited,
                   smtpConn, smtpOverlap, timed, signin>>

NextSmtp ==
    \/ \E r \in SmtpRequests, n \in 1..MaxSmtpRows :
          \E rows \in [1..n -> RowKinds] : SmtpDispatch(r, rows)
    \/ \E r \in SmtpRequests, ok \in BOOLEAN, cuts \in BOOLEAN : SmtpConnected(r, ok, cuts)
    \/ \E r \in SmtpRequests, i \in 1..MaxSmtpRows, o \in {"returned", "threw"} :
          SmtpSendComplete(r, i, o)
    \/ \E r \in SmtpRequests : SmtpAllSettled(r)
    \/ \E r \in SmtpRequests, ok \in BOOLEAN : SmtpFinish(r, ok)

SpecSmtp == Init /\ [][NextSmtp]_vars

\* The steps the handler takes by itself are taken: Promise.all resolves once
\* every task has settled, and close() settles.  Nothing makes connectTLS or
\* send settle: the revision awaits them without a timer.
SpecSmtpLive ==
    /\ SpecSmtp
    /\ \A r \in SmtpRequests :
          /\ WF_vars(SmtpAllSettled(r))
          /\ WF_vars(\E ok \in BOOLEAN : SmtpFinish(r, ok))

(***************************************************************************)
(* The sign-in form and its limiter (utils/security.ts, AuthForm.tsx).     *)
(* authRateLimiter is one object per page; its records are a Map from key  *)
(* to {count, lastAttempt}, here a function whose domain is the keys that  *)
(* have a record.                                                          *)
(***************************************************************************)
CLEANUP_IDLE_MS == 300000
AUTH_MAX_ATTEMPTS == 5
AUTH_WINDOW_MS == 900000
FORM_MAX_ATTEMPTS == 5
SignInTickMs == 150000

MapDelete(m, k) == [x \in (DOMAIN m) \ {k} |-> m[x]]

\* RateLimiter.cleanup at time t
cleanup(attempts, t) ==
    [k \in {x \in DOMAIN attempts : ~(attempts[x].lastAttempt < t - CLEANUP_IDLE_MS)}
        |-> attempts[k]]

\* RateLimiter.isRateLimited(key, maxAttempts, windowMs) at time t: the new
\* records and the answer
isRateLimited(attempts, key, maxAttempts, windowMs, t) ==
    IF key = ""
    THEN [attempts |-> attempts, limited |-> TRUE]
    ELSE IF key \notin DOMAIN attempts
    THEN [attempts |-> MapSet(attempts, key, [count |-> 1, lastAttempt |-> t]),
          limited |-> FALSE]
    ELSE IF t - attempts[key].lastAttempt > windowMs
    THEN [attempts |-> MapSet(attempts, key, [count |-> 1, lastAttempt |-> t]),
          limited |-> FALSE]
    ELSE [attempts |-> MapSet(attempts, key, [count |-> attempts[key].count + 1,
                                              lastAttempt |-> t]),
          limited |-> attempts[key].count + 1 > maxAttempts]

\* RateLimiter.resetAttempts(key)
resetAttempts(attempts, key) == IF key # "" THEN MapDelete(attempts, key) ELSE attempts

\* handleSubmit up to `await signIn(..)`: the limiter is asked first; a form
\* whose input fails validation returns before the sign-in call.  The
\* button is disabled while a sign-in is awaited and from five failed
\* sign-ins on.
SignInSubmit(key, inputValid) ==
    /\ pc = "idle"
    /\ ~signin.pending
    /\ signin.attemptCount < FORM_MAX_ATTEMPTS
    /\ key \in DOMAIN signin.attempts => signin.attempts[key].count < MaxSignInCount
    /\ LET r == isRateLimited(signin.attempts, key, AUTH_MAX_ATTEMPTS, AUTH_WINDOW_MS,
                              signin.clock)
       IN  signin' = [signin EXCEPT
                        !.attempts = r.attempts,
                        !.pending = ~r.limited /\ inputValid,
                        !.call = [made |-> TRUE, key |-> key, limited |-> r.limited,
                                  mustBlock |-> signin.lockout[key]
                                      /\ signin.clock - signin.lastCallAt[key] < AUTH_WINDOW_MS,
                                  cleaned |-> signin.cleaned[key]],
                        !.lockout[key] = r.limited,
                        !.lastCallAt[key] = signin.clock,
                        !.cleaned[key] = FALSE]
    /\ UNCHANGED <<rateLimitMap, now, adminUsers, requestVars, rlLast, windowCalls,
                   windowEnd, revoked, handlers, validated, sanitized, audited, smtpVars,
                   timed>>

\* signIn settles: an error or an exception counts a failed attempt of the
\* form, a success resets the form and the limiter's record
SignInAnswer(key, outcome) ==
    /\ pc = "idle"
    /\ signin.pending
    /\ signin.call.key = key
    /\ signin' =
          IF outcome = "ok"
          THEN [signin EXCEPT !.pending = FALSE, !.attemptCount = 0,
                              !.attempts = resetAttempts(@, key),
                              !.lockout[key] = FALSE]
          ELSE [signin EXCEPT !.pending = FALSE, !.attemptCount = @ + 1]
    /\ UNCHANGED <<rateLimitMap, now, adminUsers, requestVars, rlLast, windowCalls,
                   windowEnd, revoked, handlers, validated, sanitized, audited, smtpVars,
                   timed>>

\* the form is mounted again (navigation inside the page): useState(0)
SignInRemount ==
    /\ pc = "idle"
    /\ ~signin.pending
    /\ signin.attemptCount > 0
    /\ signin' = [signin EXCEPT !.attemptCount = 0]
    /\ UNCHANGED <<rateLimitMap, now, adminUsers, requestVars, rlLast, windowCalls,
                   windowEnd, revoked, handlers, validated, sanitized, audited, smtpVars,
                   timed>>

\* time passes
SignInTick ==
    /\ pc = "idle"
    /\ signin.clock < MaxSignInTicks * SignInTickMs
    /\ signin' = [signin EXCEPT !.clock = @ + SignInTickMs]
    /\ UNCHANGED <<rateLimitMap, now, adminUsers, requestVars, rlLast, windowCalls,
                   windowEnd, revoked, handlers, validated, sanitized, audited, smtpVars,
                   timed>>

\* the callback of setInterval(.., 5 * 60 * 1000) runs, on time or late
SignInCleanup ==
    /\ pc = "idle"
    /\ signin.clock >= signin.cleanupDue
    /\ signin' = [signin EXCEPT
                     !.attempts = cleanup(@, signin.clock),
                     !.cleanupDue = @ + CLEANUP_INTERVAL_MS,
                     !.cleaned = [k \in ClientKeys |->
                                    @[k] \/ (k \in DOMAIN signin.attempts
                                             /\ k \notin DOMAIN cleanup(signin.attempts,
                                                                        signin.clock))]]
    /\ UNCHANGED <<rateLimitMap, now, adminUsers, requestVars, rlLast, windowCalls,
                   windowEnd, revoked, handlers, validated, sanitized, audited, smtpVars,
                   timed>>

NextSignIn ==
    \/ \E k \in ClientKeys, v \in BOOLEAN : SignInSubmit(k, v)
    \/ \E k \in ClientKeys, o \in {"ok", "error", "threw"} : SignInAnswer(k, o)
    \/ SignInRemount
    \/ SignInTick
    \/ SignInCleanup

SpecSignIn == Init /\ [][NextSignIn]_vars
(***************************************************************************)
(* Properties.  What a request did is read from its trace, its transport   *)
(* calls and its response.                                                  *)
(***************************************************************************)
Done == pc = "done"
Dispatched == Calls(trace, "dispatch") # {}
Audited(action) == AuditCalls(trace, action) # {}
LastEvent == IF trace = <<>> THEN Ev("", "") ELSE trace[Len(trace)]
NoDirectoryQuery == Calls(trace, "employees.select") = {}
NoTransport == sends = <<>> /\ \A i \in DOMAIN transport : transport[i] = "none"

\* the constraints of a broadcast request, field by field
PillarChars == LowerLetters \cup UpperLetters \cup Digits \cup Whitespace \cup {"-", "_"}
FieldEmpty(v) == Nullish(v) \/ (v.kind = "string" /\ v.text = <<>>)
Oversized(v, max) == v.kind = "string" /\ Len(v.text) > max
PillarCharsInvalid(v) ==
    v.kind = "string" /\ \E i \in 1..Len(v.text) : v.text[i] \notin PillarChars
Denylisted(subject, content) ==
    \E p \in DOMAIN suspiciousPatterns :
        RegexTest(suspiciousPatterns[p],
                  TemplateText(subject) \o <<" ">> \o TemplateText(content), TRUE)
ViolatesConstraint(j) ==
    \/ FieldEmpty(j.pillar) \/ FieldEmpty(j.subject) \/ FieldEmpty(j.content)
    \/ Oversized(j.pillar, MAX_PILLAR_LENGTH)
    \/ Oversized(j.subject, MAX_SUBJECT_LENGTH)
    \/ Oversized(j.content, MAX_CONTENT_LENGTH)
    \/ PillarCharsInvalid(j.pillar)
    \/ Denylisted(j.subject, j.content)
\* ViolatesConstraint on each body of the model, computed once
Violating == {j \in DOMAIN Validation : ViolatesConstraint(j)}

\* C1: a request of an authenticated admin that reaches validation with a
\* pillar, subject or content that is empty, oversized, has invalid pillar
\* characters or matches the denylist gets a non-empty error list from
\* validateEmailInput and ends with 400 right after the
\* 'email_validation_failed' audit call, without a directory query and
\* without a transport invocation.
C1_ValidationUpfront ==
    (Done /\ Calls(trace, "validateEmailInput") # {} /\ body.json \in Violating) =>
        /\ ~Validation[body.json].threw
        /\ Len(Validation[body.json].errors) > 0
        /\ response = createErrorResponse(400)
        /\ LastEvent = Ev("logAdminAction", "email_validation_failed")
        /\ NoDirectoryQuery
        /\ NoTransport

\* C2: for each key, a call is allowed exactly when it is among the first
\* RATE_LIMIT_MAX_REQUESTS calls of its window (the window opened by the first
\* call for the key, or by the first call made after the reset time of the
\* previous window has passed), and a call that opens a window is allowed and
\* leaves the record with count 1 and the reset time of the new window.
C2_RateLimitBoundary ==
    rlLast.key # "none" =>
        /\ rlLast.allowed <=> windowCalls[rlLast.key] <= RATE_LIMIT_MAX_REQUESTS
        /\ rlLast.fresh =>
              /\ rlLast.allowed
              /\ rateLimitMap[rlLast.key].count = 1
              /\ rateLimitMap[rlLast.key].resetTime = windowEnd[rlLast.key]

\* the eleventh call of a window is denied while another key is still served
C2_Witness ==
    /\ rlLast.key # "none"
    /\ ~rlLast.allowed
    /\ windowCalls[rlLast.key] = RATE_LIMIT_MAX_REQUESTS + 1
    /\ \E k \in DOMAIN rateLimitMap :
          k # rlLast.key /\ rateLimitMap[k].count < RATE_LIMIT_MAX_REQUESTS

\* C3: once the directory has answered with the rows of a pillar of dirSize
\* members, the handler dispatches exactly when 1 <= dirSize <= MAX_RECIPIENTS,
\* and then with one task per member; for every larger dirSize (also beyond the
\* fetch limit) the request ends with 400 right after the
\* 'email_too_many_recipients' audit call and without a transport invocation;
\* a 200 response tallies every member.
C3_RecipientCap ==
    Answered(trace, "employees.answer", "rows") =>
        /\ Dispatched <=> (1 <= dirSize /\ dirSize <= MAX_RECIPIENTS)
        /\ Dispatched =>
              /\ Len(employees) = dirSize
              /\ Len(results) = dirSize
              /\ \A i \in 1..dirSize : transport[i] # "none" \/ results[i] = "invalid"
        /\ dirSize > MAX_RECIPIENTS =>
              /\ Done
              /\ response = createErrorResponse(400)
              /\ LastEvent = Ev("logAdminAction", "email_too_many_recipients")
              /\ NoTransport
        /\ response.kind = "success" =>
              response.recipients + response.failures = dirSize

\* a pillar of exactly MAX_RECIPIENTS members is delivered in full
C3_Witness ==
    /\ response.kind = "success"
    /\ dirSize = MAX_RECIPIENTS
    /\ response.recipients = MAX_RECIPIENTS

Thrown == {i \in DOMAIN transport : transport[i] = "threw"}
\* the transport was invoked for every recipient and every call completed
\* before the timer of its task
AllCompletedInTime ==
    \A i \in DOMAIN results :
        transport[i] \in {"returned", "threw"} /\ results[i] \in {"success", "threw"}

\* C4: a request that reached dispatch ends with a 200 response, never with an
\* error; and when the transport throws for the recipients in F and returns
\* for the others, in any order of completion, that response has
\* failures = |F| and recipients = n - |F|, and every recipient outside F has
\* a successful result.
C4_FanOutIsolation ==
    /\ (Done /\ Dispatched) => response.kind = "success"
    /\ (Done /\ Dispatched /\ AllCompletedInTime) =>
          /\ response.failures = Cardinality(Thrown)
          /\ response.recipients = Len(results) - Cardinality(Thrown)
          /\ \A i \in DOMAIN results : i \notin Thrown => results[i] = "success"

\* three recipients, the transport throws for some and returns for the others
C4_Witness ==
    /\ Done /\ Dispatched /\ AllCompletedInTime
    /\ Len(results) = 3
    /\ Thrown = {2}
    /\ response.failures = 1 /\ response.recipients = 2

\* C5: in a 200 response after dispatch there is one settled result per
\* resolved recipient, 'recipients' is the number of successful results,
\* 'failures' the number of unsuccessful ones, neither exceeds the number of
\* resolved recipients and their sum equals it.
C5_TallyConsistency ==
    response.kind = "success" =>
        /\ Len(results) = Len(employees)
        /\ \A i \in DOMAIN results : results[i] # "pending"
        /\ response.recipients = Cardinality({i \in DOMAIN results : results[i] = "success"})
        /\ response.failures = Cardinality({i \in DOMAIN results : results[i] # "success"})
        /\ response.recipients <= Len(employees)
        /\ response.failures <= Len(employees)
        /\ response.recipients + response.failures = Len(employees)

\* a 200 response whose failures are a timeout and a bad stored address
C5_Witness ==
    /\ response.kind = "success"
    /\ response.recipients > 0
    /\ \E i, j \in DOMAIN results : results[i] = "timeout" /\ results[j] = "invalid"

Unauthorized ==
    Answered(trace, "admin_users.answer", "none")
      \/ Answered(trace, "admin_users.answer", "error")

\* C6: when the allow-list lookup returns no record or an error, the request
\* ends with 403 after exactly one 'unauthorized_email_attempt' audit call,
\* the body is not read, and there is no directory query and no transport
\* invocation.
C6_UnauthorizedFailClosed ==
    Unauthorized =>
        /\ Done
        /\ response = createErrorResponse(403)
        /\ Cardinality(AuditCalls(trace, "unauthorized_email_attempt")) = 1
        /\ LastEvent = Ev("logAdminAction", "unauthorized_email_attempt")
        /\ Calls(trace, "req.text") = {}
        /\ body = NoBody
        /\ NoDirectoryQuery
        /\ NoTransport

\* an authenticated user without an allow-list record is refused
C6_Witness ==
    /\ Done
    /\ user \in Users /\ user \notin adminUsers
    /\ Answered(trace, "admin_users.answer", "none")
    /\ response.status = 403

\* C7: a directory answer with zero rows ends the request with 404 right after
\* the 'email_no_recipients' audit call, a directory query error with 500 right
\* after the 'email_database_error' audit call; in both cases there is no
\* 'email_send_initiated' audit call and no transport invocation.
C7_EmptyVersusError ==
    /\ (Answered(trace, "employees.answer", "rows") /\ Len(employees) = 0) =>
          /\ Done
          /\ response = createErrorResponse(404)
          /\ LastEvent = Ev("logAdminAction", "email_no_recipients")
          /\ ~Audited("email_send_initiated")
          /\ ~Dispatched /\ NoTransport
    /\ Answered(trace, "employees.answer", "error") =>
          /\ Done
          /\ response = createErrorResponse(500)
          /\ LastEvent = Ev("logAdminAction", "email_database_error")
          /\ ~Audited("email_send_initiated")
          /\ ~Dispatched /\ NoTransport

\* a valid request for a pillar without members
C7_Witness ==
    /\ Done
    /\ Answered(trace, "employees.answer", "rows")
    /\ Len(employees) = 0
    /\ response.status = 404

HeaderOk(h) ==
    h.present /\ StartsWith(h.text, BearerPrefix)
      /\ Len(Trim(RemoveFirst(h.text, BearerPrefix))) >= MIN_TOKEN_LENGTH
BodyParses(b) ==
    b.readOk /\ b.len > 0 /\ b.len <= MAX_BODY_LENGTH /\ b.json.kind # "syntax_error"
\* an object of three strings for which validateEmailInput returns no error
BodyValid(b) ==
    /\ b.json.kind = "object"
    /\ \A v \in {b.json.pillar, b.json.subject, b.json.content} : v.kind = "string"
    /\ Validation[b.json].errors = <<>>
FailedStage ==
    IF ~request.hasEnv THEN "env-config"
    ELSE IF ~HeaderOk(request.authHeader) THEN "auth-header"
    ELSE IF ~(\E u \in Users : Answered(trace, "auth.answer", u)) THEN "authenticate"
    ELSE IF Answered(trace, "checkRateLimit", "denied") THEN "rate-limit"
    ELSE IF ~Answered(trace, "admin_users.answer", "row") THEN "authorize-admin"
    ELSE IF ~BodyParses(body) THEN "parse-body"
    ELSE IF ~BodyValid(body) THEN "validate-input"
    ELSE IF ~Answered(trace, "employees.answer", "rows") \/ dirSize = 0
              \/ dirSize > MAX_RECIPIENTS
         THEN "resolve-recipients"
    ELSE "none"
ExpectedStatus ==
    CASE FailedStage = "env-config" -> 500
      [] FailedStage \in {"auth-header", "authenticate"} -> 401
      [] FailedStage = "rate-limit" -> 429
      [] FailedStage = "authorize-admin" -> 403
      [] FailedStage \in {"parse-body", "validate-input"} -> 400
      [] FailedStage = "resolve-recipients" ->
            IF ~Answered(trace, "employees.answer", "rows") THEN 500
            ELSE IF dirSize = 0 THEN 404 ELSE 400
      [] OTHER -> 200
StageOrder == <<"env-config", "auth-header", "authenticate", "rate-limit",
                "authorize-admin", "parse-body", "validate-input",
                "resolve-recipients", "none">>
StageIndex(stage) == CHOOSE k \in DOMAIN StageOrder : StageOrder[k] = stage
\* the stage a call belongs to (0: no stage)
StageOfCall(op) ==
    CASE op = "auth.getUser" -> StageIndex("authenticate")
      [] op = "checkRateLimit" -> StageIndex("rate-limit")
      [] op = "admin_users.select" -> StageIndex("authorize-admin")
      [] op = "req.text" -> StageIndex("parse-body")
      [] op = "validateEmailInput" -> StageIndex("validate-input")
      [] op = "employees.select" -> StageIndex("resolve-recipients")
      [] op = "dispatch" -> StageIndex("none")
      [] OTHER -> 0
StageCalls == SelectSeq(trace, LAMBDA e : StageOfCall(e.op) > 0)

\* C9: a finished POST request has the status of the first check that fails
\* for it, in the order env-config (500), auth-header (401), authenticate
\* (401), rate-limit (429), authorize-admin (403), parse-body (400),
\* validate-input (400), resolve-recipients (500/404/400); its stages ran in
\* that order and no stage after the failed one ran.
C9_StageOrder ==
    (Done /\ request.method = "POST") =>
        /\ response.status = ExpectedStatus
        /\ \A k \in DOMAIN StageCalls :
              /\ StageOfCall(StageCalls[k].op) <= StageIndex(FailedStage)
              /\ k > 1 => StageOfCall(StageCalls[k - 1].op) < StageOfCall(StageCalls[k].op)

\* C10: a request whose authentication timer fired ends with the 401 response
\* after an 'unauthorized_email_attempt' audit call, as when the verifier
\* rejects the token, and makes no rate-limit call, allow-list lookup or
\* directory query.
C10_AuthTimeoutIsAuthError ==
    Answered(trace, "timeout", "auth") =>
        /\ Done
        /\ response = createErrorResponse(401)
        /\ Audited("unauthorized_email_attempt")
        /\ Calls(trace, "checkRateLimit") = {}
        /\ Calls(trace, "admin_users.select") = {}
        /\ NoDirectoryQuery

(***************************************************************************)
(* C11: when the 15 s batch timer fires while a task is pending, the       *)
(* request ends with the generic 500 response; the initiated audit call    *)
(* was made exactly once and no completed audit call is made.  A 200       *)
(* response is never returned while a task is pending (no partial tally).  *)
(***************************************************************************)
C11_BatchTimeoutHardFailure ==
    /\ Answered(trace, "timeout", "batch") =>
          /\ Done
          /\ response = createErrorResponse(500)
          /\ Cardinality(AuditCalls(trace, "email_send_initiated")) = 1
          /\ AuditCalls(trace, "email_send_completed") = {}
    /\ response.kind = "success" => \A i \in DOMAIN results : results[i] # "pending"

\* the batch timer fired after one task had succeeded and while another was pending
C11_Witness ==
    /\ Answered(trace, "timeout", "batch")
    /\ \E i \in DOMAIN results : results[i] = "pending"
    /\ \E i \in DOMAIN results : results[i] = "success"
    /\ response.status = 500

(***************************************************************************)
(* C12: a recipient whose 5 s timer fired before its transport call        *)
(* completed has a failed result and is counted in failures; the later     *)
(* completion of that call, returning or throwing, changes no result, and  *)
(* changes neither the response nor the audit calls of the request.        *)
(***************************************************************************)
TimedOut(rs) == {i \in DOMAIN rs : rs[i] = "timeout"}
LateCompletion ==
    \E i \in TimedOut(results) :
        /\ transport[i] = "called"
        /\ DOMAIN transport' = DOMAIN transport
        /\ transport'[i] # "called"

C12_PerSendTimeout ==
    [][ /\ \A i \in TimedOut(results) :
              i \in DOMAIN results' => results'[i] = "timeout"
        /\ LateCompletion => UNCHANGED <<results, response, trace, auditLog, pc>>
        /\ response'.kind = "success" =>
              /\ response'.failures >= Cardinality(TimedOut(results'))
              /\ response'.recipients = successCount(results')
      ]_vars

\* a transport call returned after its task had timed out and after the 200
\* response that counts the recipient as failed
C12_Witness ==
    /\ Done
    /\ response.kind = "success"
    /\ \E i \in TimedOut(results) : transport[i] = "returned"
    /\ \E i \in TimedOut(results) : transport[i] = "threw"
    /\ response.failures = Cardinality(TimedOut(results))

(***************************************************************************)
(* C13: within one request the transport is invoked at most once for each  *)
(* row of the answer of the one directory query; it is invoked for no row  *)
(* whose stored email fails the address pattern, and that row has a failed *)
(* result; it is invoked for nothing else, and a failed or timed-out send  *)
(* is not repeated.                                                        *)
(***************************************************************************)
ValidKinds == {k \in RowKinds : EmailIsValid(k)}
Sent == {sends[k] : k \in DOMAIN sends}

\* sends lists distinct rows (in the order of employees.map)
C13_SendAttempts ==
    /\ Cardinality(Calls(trace, "employees.select")) <= 1
    /\ Cardinality(Calls(trace, "dispatch")) <= 1
    /\ \A k \in DOMAIN sends :
          /\ sends[k] \in DOMAIN employees
          /\ k > 1 => sends[k - 1] < sends[k]
          /\ employees[sends[k]] \in ValidKinds
          /\ transport[sends[k]] # "none"
    /\ Cardinality({i \in DOMAIN transport : transport[i] # "none"}) = Len(sends)
    /\ Dispatched =>
          \A i \in DOMAIN employees :
              employees[i] \notin ValidKinds =>
                  transport[i] = "none" /\ results[i] \notin {"success", "pending"}

\* a finished request over three rows: no transport call for the row with the
\* bad address, one call that threw and one that timed out, neither repeated
C13_Witness ==
    /\ Done
    /\ response.kind = "success"
    /\ Len(employees) = 3
    /\ Len(sends) = 2
    /\ \E i \in DOMAIN employees : employees[i] \notin ValidKinds /\ transport[i] = "none"
    /\ \E i \in Sent : results[i] = "threw"
    /\ \E i \in Sent : results[i] = "timeout"
    /\ response.failures = 3

(***************************************************************************)
(* C14: a failed audit write never changes what a request does.  No        *)
(* exception of logAdminAction reaches the handler; the status of a        *)
(* finished request is the one determined by the request and by the        *)
(* answers of the other collaborators, whether or not its audit rows were  *)
(* stored; the initiated audit call is followed by the dispatch and a      *)
(* completed dispatch by the 200 response with the tally.                  *)
(***************************************************************************)
AuditWriteFailed == Len(auditLog) < Cardinality(Calls(trace, "logAdminAction"))
NoException == Calls(trace, "catch") = {}

C14_AuditFailureIsolated ==
    /\ ~Answered(trace, "catch", "audit")
    /\ Len(auditLog) <= Cardinality(Calls(trace, "logAdminAction"))
    /\ (Done /\ request.method = "POST" /\ NoException) =>
          response.status = ExpectedStatus
    /\ Audited("email_send_initiated") => Dispatched
    /\ Audited("email_send_completed") =>
          response = SuccessResponse(successCount(results), failureCount(results))

\* a request that sent mail and got its 200 response although neither its
\* initiated nor its completed audit row was stored
C14_Witness ==
    /\ Done
    /\ response.kind = "success"
    /\ response.recipients >= 1
    /\ Cardinality(Calls(trace, "logAdminAction")) = 2
    /\ auditLog = <<>>

(***************************************************************************)
(* C15, as stated: every request that ends with an error status made at    *)
(* least one audit call before its response.                               *)
(***************************************************************************)
C15_EveryRejectionAudited ==
    (Done /\ response.kind = "error") => Calls(trace, "logAdminAction") # {}

(***************************************************************************)
(* C15, amended: a request rejected by a check made after the identity     *)
(* verifier answered (401 rejected token, 429, 403, 400, 404, 500 database *)
(* error) made exactly one audit call, immediately before its response.    *)
(* A request rejected before the verifier is called (405, 500 missing      *)
(* configuration, 401 header or token format) and a request answered by    *)
(* the outer exception handler (500) made no audit call.                   *)
(***************************************************************************)
C15_RejectionAudit ==
    (Done /\ response.kind = "error") =>
        IF trace = <<>> \/ ~NoException
        THEN Calls(trace, "logAdminAction") = {}
        ELSE /\ Cardinality(Calls(trace, "logAdminAction")) = 1
             /\ LastEvent.op = "logAdminAction"

\* a rate-limited request: one audit call, then the 429 response
C15_Witness ==
    /\ Done
    /\ response.status = 429
    /\ LastEvent = Ev("logAdminAction", "rate_limit_exceeded")

(***************************************************************************)
(* C16: every error response has a status in {400, 401, 403, 404, 405,     *)
(* 429, 500} and a body with the single key `error`, whose text is fixed   *)
(* by the status: two rejected requests with the same status get the same  *)
(* body, whatever the cause.                                               *)
(***************************************************************************)
ErrorStatuses == {400, 401, 403, 404, 405, 429, 500}
GenericBody(status) ==
    CASE status = 400 -> "Invalid request parameters"
      [] status = 401 -> "Authentication required"
      [] status = 403 -> "Access denied"
      [] status = 404 -> "Resource not found"
      [] status = 405 -> "An error occurred"
      [] status = 429 -> "Too many requests"
      [] status = 500 -> "Internal server error"

C16_GenericErrorBodies ==
    [][ /\ response'.kind = "error" =>
              /\ response'.status \in ErrorStatuses
              /\ response'.details = <<>>
              /\ response'.error = GenericBody(response'.status)
        /\ (response.kind = "error" /\ response'.kind = "error"
              /\ response.status = response'.status) => response' = response
      ]_vars

LookupAnswers ==
    pc = "admin" /\ Calls(trace', "admin_users.answer") # {}

C18_NoAdminCaching ==
    [][ /\ LookupAnswers =>
              /\ Cardinality(Calls(trace', "admin_users.select")) = 1
              /\ Cardinality(Calls(trace', "admin_users.answer")) = 1
              /\ Answered(trace', "admin_users.answer", "row") => user \in adminUsers
              /\ Answered(trace', "admin_users.answer", "none") => user \notin adminUsers
              /\ pc' = "body" <=> Answered(trace', "admin_users.answer", "row")
              /\ user \notin adminUsers => pc' = "done" /\ response'.status = 403
        /\ pc' \in {"body", "directory", "dispatch"} =>
              Answered(trace', "admin_users.answer", "row")
      ]_vars

\* a caller whose record was removed after a 200 gets 403 on a later request
C18_Witness ==
    /\ Done
    /\ user \in revoked
    /\ response.status = 403
    /\ Answered(trace, "admin_users.answer", "none")

(***************************************************************************)
(* C19: of the N requests of one caller that have reached the rate-limit   *)
(* check within one window, in whatever order the handlers were resumed,   *)
(* exactly min(N, 10) passed and the stored count is min(N, 10): no        *)
(* increment is lost and no 11th request passes.                           *)
(***************************************************************************)
Checked == handlers.passed + handlers.denied

C19_ConcurrentRateLimit ==
    /\ handlers.passed = Min(Checked, RATE_LIMIT_MAX_REQUESTS)
    /\ Checked > 0 =>
          /\ ConcurrentCaller \in DOMAIN rateLimitMap
          /\ rateLimitMap[ConcurrentCaller].count = Min(Checked, RATE_LIMIT_MAX_REQUESTS)
    /\ Checked = 0 => rateLimitMap = <<>>

\* MaxConcurrent requests were awaiting the identity verifier at once; all of
\* them have been resumed: ten passed and the others were denied
C19_Witness ==
    /\ handlers.peak = MaxConcurrent
    /\ handlers.awaiting = 0
    /\ handlers.passed = RATE_LIMIT_MAX_REQUESTS
    /\ handlers.denied = MaxConcurrent - RATE_LIMIT_MAX_REQUESTS
    /\ rateLimitMap[ConcurrentCaller].count = RATE_LIMIT_MAX_REQUESTS

(***************************************************************************)
(* C20, as stated: validateEmailInput returns a list, which is empty       *)
(* exactly when the pillar has 1 to 100 characters of [A-Za-z0-9\s\-_],    *)
(* the subject has 1 to 200 characters, the content has 1 to 10000         *)
(* characters and subject and content match no denylist pattern; otherwise *)
(* the list has an error for each field whose constraint is violated.      *)
(***************************************************************************)
PillarMessages ==
    {"Pillar is required", "Invalid pillar format", "Pillar contains invalid characters"}
SubjectMessages == {"Subject is required", "Subject must be less than 200 characters"}
ContentMessages == {"Content is required", "Content must be less than 10,000 characters"}
UnsafeMessages == {"Content contains potentially unsafe elements"}
HasError(messages) == \E i \in DOMAIN validated.errors : validated.errors[i] \in messages

C20_ValidateIffConstraints ==
    validated.called =>
        /\ ~validated.threw
        /\ validated.errors = <<>> <=> ~ViolatesConstraint(validated)
        /\ HasError(PillarMessages) <=>
              \/ FieldEmpty(validated.pillar)
              \/ Oversized(validated.pillar, MAX_PILLAR_LENGTH)
              \/ PillarCharsInvalid(validated.pillar)
        /\ HasError(SubjectMessages) <=>
              FieldEmpty(validated.subject) \/ Oversized(validated.subject, MAX_SUBJECT_LENGTH)
        /\ HasError(ContentMessages) <=>
              FieldEmpty(validated.content) \/ Oversized(validated.content, MAX_CONTENT_LENGTH)

(***************************************************************************)
(* C20, amended: "non-empty" is "not blank".  When pillar, subject and     *)
(* content are strings or absent, validateEmailInput returns a list with   *)
(* at most one error per field and one for the denylist: a pillar error    *)
(* exactly when the pillar is absent, blank (only white space), longer     *)
(* than 100 or has a character outside [A-Za-z0-9\s\-_]; a subject error   *)
(* exactly when the subject is absent, blank or longer than 200; a content *)
(* error exactly when the content is absent, blank or longer than 10000;   *)
(* the unsafe-content error exactly when the text "subject content"        *)
(* matches a denylist pattern.  The lengths 100, 200 and 10000 are         *)
(* accepted.  When a field is neither a string nor absent the call throws. *)
(***************************************************************************)
Blank(v) == Nullish(v) \/ (v.kind = "string" /\ \A i \in 1..Len(v.text) : v.text[i] \in Whitespace)
WellTyped(v) == Nullish(v) \/ v.kind = "string"

C20_ValidateExact ==
    validated.called =>
        IF ~(WellTyped(validated.pillar) /\ WellTyped(validated.subject)
               /\ WellTyped(validated.content))
        THEN validated.threw
        ELSE /\ ~validated.threw
             /\ HasError(PillarMessages) <=>
                   \/ Blank(validated.pillar)
                   \/ Oversized(validated.pillar, MAX_PILLAR_LENGTH)
                   \/ PillarCharsInvalid(validated.pillar)
             /\ HasError(SubjectMessages) <=>
                   Blank(validated.subject) \/ Oversized(validated.subject, MAX_SUBJECT_LENGTH)
             /\ HasError(ContentMessages) <=>
                   Blank(validated.content) \/ Oversized(validated.content, MAX_CONTENT_LENGTH)
             /\ HasError(UnsafeMessages) <=> Denylisted(validated.subject, validated.content)
             /\ \A i \in DOMAIN validated.errors :
                   validated.errors[i] \in PillarMessages \cup SubjectMessages
                                             \cup ContentMessages \cup UnsafeMessages
             /\ \A i, j \in DOMAIN validated.errors :
                   \A group \in {PillarMessages, SubjectMessages, ContentMessages, UnsafeMessages} :
                       (validated.errors[i] \in group /\ validated.errors[j] \in group) => i = j

\* a pillar of one space, which the pattern of the claim accepts, is refused,
\* while subject and content at their limits of 200 and 10000 are accepted
C20_Witness ==
    /\ validated.called
    /\ validated.pillar = Str(<<" ">>)
    /\ validated.subject = Str(Rep("b", MAX_SUBJECT_LENGTH))
    /\ validated.content = Str(Rep("c", MAX_CONTENT_LENGTH))
    /\ validated.errors = <<"Pillar is required">>

(***************************************************************************)
(* C21: for every argument, the result of sanitizeHtml has no occurrence,  *)
(* in any letter case, of javascript:, data: or vbscript:, no <script tag  *)
(* and no on<word>= event-handler attribute.                               *)
(***************************************************************************)
DangerousPatterns ==
    { Lit(<<"j","a","v","a","s","c","r","i","p","t",":">>),
      Lit(<<"d","a","t","a",":">>),
      Lit(<<"v","b","s","c","r","i","p","t",":">>),
      Lit(<<"<","s","c","r","i","p","t">>),
      Lit(<<"o","n">>) \o Plus(WordChars) \o Star(Whitespace) \o Lit(<<"=">>) }
Dangerous(s) == \E p \in DangerousPatterns : RegexTest(p, s, TRUE)

C21_SanitizationSafe ==
    sanitized.called => ~Dangerous(sanitized.output)

(***************************************************************************)
(* C22: a call of logAdminAction with an object as details, made while the *)
(* audit store accepts inserts, appends exactly one entry, also when the   *)
(* serialization of the details is longer than 1000 characters.            *)
(***************************************************************************)
C22_OversizedDetailsKept ==
    (audited.called /\ audited.storeOk) => Len(auditLog) = 1

(***************************************************************************)
(* C23: a request of an authenticated admin within the rate limit whose    *)
(* body is empty, longer than 50000 characters, not parseable, a JSON      *)
(* value that is not an object, or an object in which pillar, subject or   *)
(* content is missing or not a string, ends with status 400.               *)
(***************************************************************************)
BodyWasRead == Done /\ Calls(trace, "req.text") # {}
Malformed(b) ==
    \/ ~BodyParses(b)
    \/ b.json.kind # "object"
    \/ \E v \in {b.json.pillar, b.json.subject, b.json.content} : v.kind # "string"

C23_MalformedBodyIs400 ==
    (BodyWasRead /\ Malformed(body)) => response.status = 400

(***************************************************************************)
(* C24: every POST request eventually produces a response, also when the   *)
(* transport calls of its dispatch never complete.                         *)
(***************************************************************************)
C24_BoundedWaiting ==
    \A r \in SmtpRequests : (smtpReq[r].pc # "idle") ~> (smtpReq[r].pc = "done")

(***************************************************************************)
(* C25: the limiter of the code refines the specified limiter, which on a  *)
(* call for a key without record or after the reset time sets the record   *)
(* to count 1 and reset time now + window and allows, and otherwise        *)
(* increments the count and allows exactly when the incremented count is   *)
(* at most 10.  windowCalls and windowEnd are the count and the reset time *)
(* of the specified limiter.  After every sequence of calls both hold      *)
(* records for the same keys, with equal reset times and with the coded    *)
(* count equal to min(specified count, 10), and the last call got the      *)
(* decision of the specified limiter.                                      *)
(***************************************************************************)
SpecifiedAllows(k) == windowCalls[k] <= RATE_LIMIT_MAX_REQUESTS

C25_LimiterRefinement ==
    /\ DOMAIN rateLimitMap = DOMAIN windowCalls
    /\ DOMAIN rateLimitMap = DOMAIN windowEnd
    /\ \A k \in DOMAIN rateLimitMap :
          /\ rateLimitMap[k].resetTime = windowEnd[k]
          /\ rateLimitMap[k].count = Min(windowCalls[k], RATE_LIMIT_MAX_REQUESTS)
    /\ rlLast.key # "none" => (rlLast.allowed <=> SpecifiedAllows(rlLast.key))

\* the specified count has passed the limit by two calls while the coded
\* count stays at the limit, and the other key is in a later window
C25_Witness ==
    /\ rlLast.key # "none"
    /\ ~rlLast.allowed
    /\ windowCalls[rlLast.key] = RATE_LIMIT_MAX_REQUESTS + 2
    /\ rateLimitMap[rlLast.key].count = RATE_LIMIT_MAX_REQUESTS
    /\ \E k \in DOMAIN rateLimitMap :
          /\ rateLimitMap[k].resetTime > rateLimitMap[rlLast.key].resetTime
          /\ rateLimitMap[k].count = 1

(***************************************************************************)
(* C26: an OPTIONS request is answered with the CORS response, any other   *)
(* method than POST with 405, and a POST (of a configured function) whose  *)
(* Authorization header is missing, does not start with 'Bearer ' or has a *)
(* token of fewer than 10 characters after trimming with 401.  Such a      *)
(* request is answered in the step in which it arrives; no call is made to *)
(* the identity verifier, the allow-list store, the directory store, the   *)
(* audit store or the transport, and rateLimitMap is left as it was.       *)
(***************************************************************************)
PreAuthRejected(req) ==
    /\ req.method # ""
    /\ req.method # "POST" \/ (req.hasEnv /\ ~HeaderOk(req.authHeader))

C26_PreAuthNoSideEffects ==
    [][ PreAuthRejected(request') =>
          /\ pc' = "done"
          /\ response' = IF request'.method = "OPTIONS" THEN CorsResponse
                         ELSE IF request'.method # "POST" THEN createErrorResponse(405)
                         ELSE createErrorResponse(401)
          /\ trace' = <<>>
          /\ auditLog' = <<>>
          /\ user' = "none" /\ body' = NoBody /\ employees' = <<>>
          /\ sends' = <<>> /\ transport' = <<>>
          /\ rateLimitMap' = rateLimitMap
      ]_vars

\* a POST whose token has nine characters and a trailing space is answered
\* 401 while the caller of an earlier request keeps the quota record it had
C26_Witness ==
    /\ Done
    /\ request.method = "POST" /\ request.hasEnv
    /\ request.authHeader = Header(BearerPrefix \o Rep("t", MIN_TOKEN_LENGTH - 1) \o <<" ">>)
    /\ response = createErrorResponse(401)
    /\ trace = <<>>
    /\ rateLimitMap # <<>>

(***************************************************************************)
(* C27: the quota is consumed before the authorization.  The step in which *)
(* the identity verifier answers with a user calls checkRateLimit exactly  *)
(* once: when the caller has 10 calls in the window the record is left as  *)
(* it is, the request ends with 429 and the allow-list is not queried;     *)
(* otherwise the count of the caller goes up by exactly one (or a new      *)
(* window starts with count 1) and the allow-list is queried next.  No     *)
(* other step changes rateLimitMap, whatever the outcome of the request:   *)
(* a request answered 403, 400, 404 or 200 has made its one counted call,  *)
(* a request answered 405 or 401 has made none.                            *)
(***************************************************************************)
VerifiedAnswerStep ==
    pc = "auth" /\ \E u \in Users : Answered(trace', "auth.answer", u)
InWindow(u) == u \in DOMAIN rateLimitMap /\ now <= rateLimitMap[u].resetTime

C27_QuotaBeforeAuthorization ==
    [][ /\ VerifiedAnswerStep =>
              /\ Cardinality(Calls(trace', "checkRateLimit")) = 1
              /\ IF InWindow(user') /\ rateLimitMap[user'].count >= RATE_LIMIT_MAX_REQUESTS
                 THEN /\ rateLimitMap' = rateLimitMap
                      /\ pc' = "done"
                      /\ response' = createErrorResponse(429)
                      /\ Calls(trace', "admin_users.select") = {}
                 ELSE /\ user' \in DOMAIN rateLimitMap'
                      /\ rateLimitMap'[user'].count =
                            IF InWindow(user') THEN rateLimitMap[user'].count + 1 ELSE 1
                      /\ \A k \in DOMAIN rateLimitMap \ {user'} :
                            k \in DOMAIN rateLimitMap' /\ rateLimitMap'[k] = rateLimitMap[k]
                      /\ pc' = "admin"
                      /\ Calls(trace', "admin_users.select") # {}
        /\ ~VerifiedAnswerStep => rateLimitMap' = rateLimitMap
        /\ response'.status \in {403, 400, 404, 200} /\ response'.kind # "cors" =>
              Answered(trace', "checkRateLimit", "allowed")
        /\ response'.status \in {405, 401} => Calls(trace', "checkRateLimit") = {}
      ]_vars

\* an authenticated caller without allow-list record, whose earlier requests
\* used up the quota, gets 429 and no allow-list lookup is made
C27_Witness ==
    /\ Done
    /\ user \in Users /\ user \notin adminUsers
    /\ rateLimitMap[user].count = RATE_LIMIT_MAX_REQUESTS
    /\ response = createErrorResponse(429)
    /\ Answered(trace, "checkRateLimit", "denied")
    /\ Calls(trace, "admin_users.select") = {}

(***************************************************************************)
(* C28: the batch timeout cannot pre-empt a dispatch.  Every task has      *)
(* failed its address check at once or has a timer due before the batch    *)
(* timer; when the batch timer fires every timer of a task has fired and   *)
(* the request has its 200 response; a finished request has the 200        *)
(* response with one settled result per recipient, never the 500 of the    *)
(* batch timeout.                                                          *)
(***************************************************************************)
C28_BatchTimerNeverWins ==
    /\ timed.status # 500
    /\ timed.pc # "idle" =>
          \A i \in DOMAIN timed.rows :
              IF EmailIsValid(timed.rows[i])
              THEN timed.due[i] > 0 /\ timed.due[i] < timed.batchDue
              ELSE timed.results[i] = "invalid" /\ timed.due[i] = 0
    /\ BatchTimer \in timed.fired =>
          /\ \A i \in DOMAIN timed.due : timed.due[i] > 0 => i \in timed.fired
          /\ timed.pc = "done"
    /\ timed.pc = "done" =>
          /\ timed.status = 200
          /\ \A i \in DOMAIN timed.results : timed.results[i] # "pending"
          /\ timed.recipients + timed.failures = Len(timed.rows)

\* the batch timer has fired after a dispatch whose second task was created
\* when the timer of the first was already due: the first transport call
\* never settled, the second returned in time, and the response is the 200
C28_Witness ==
    /\ BatchTimer \in timed.fired
    /\ Len(timed.rows) = 2
    /\ timed.due[2] > timed.due[1] + SEND_TIMEOUT_MS
    /\ timed.results = <<"timeout", "success">>
    /\ timed.transport[1] = "called"
    /\ timed.status = 200 /\ timed.recipients = 1 /\ timed.failures = 1

(***************************************************************************)
(* C29: concurrent requests of the SMTP revision are isolated.  No request *)
(* calls connectTLS() or close() on the shared client while another        *)
(* request has sends in flight on it, and no send of a request is cut or   *)
(* lost because of another request.                                        *)
(***************************************************************************)
C29_SmtpIsolation ==
    /\ smtpOverlap = {}
    /\ \A r \in SmtpRequests :
          \A i \in DOMAIN smtpReq[r].sends : smtpReq[r].sends[i] \notin {"cut", "lost"}

(***************************************************************************)
(* C30: the lockout of the sign-in form lasts 15 minutes.  Once            *)
(* isRateLimited has returned true for a key, a further call for that key  *)
(* made less than 15 minutes after the key's most recent call, with no     *)
(* resetAttempts in between, returns true as well, whether or not the      *)
(* cleanup has run in between.                                             *)
(***************************************************************************)
C30_LockoutLasts == (signin.call.made /\ signin.call.mustBlock) => signin.call.limited
=============================================================================
